---- MODULE Spec2Model ----
(***************************************************************************)
(* Model of pkg/spdx/spdx.go: SPDX.PackageFromDirectory, the bounded       *)
(* parallel file scan (processDirectoryFile under a nozzle/throttler of    *)
(* width 5), and the surrounding directory-to-package steps.               *)
(*                                                                         *)
(* The named results (pkg, err) and the local lic of PackageFromDirectory  *)
(* are captured by reference by the processDirectoryFile closure, so every *)
(* worker goroutine reads and writes the same err and lic.  Each read and  *)
(* each write of these variables is one step of the worker, so that every  *)
(* interleaving of the unsynchronized accesses is a behaviour.             *)
(*                                                                         *)
(* Also modelled: buildIDString of pkg/spdx/spdx.go (SpecID, SpecIDPair)   *)
(* and GenerateBillOfMaterials of pkg/anago/stage.go with the per-version  *)
(* WriteSourceBOM and GenerateVersionArtifactsBOM (SpecStage).             *)
(* NewSPDX and Options (SpecConfig), FileFromPath (SpecFromPath) and       *)
(* TagRepository of pkg/anago/stage.go on a git repository (SpecTagging).  *)
(***************************************************************************)
EXTENDS Integers, Sequences, FiniteSets, TLC

\* ------------------------------------------------------------------ bounds
\* Entries of the directory under all interleavings (Spec), under the
\* schedules without preemption (SpecScan) and in the long file lists of
\* SpecScan, whose files are plain or unreadable.
MaxFiles == 2
MaxScanFiles == 3
MaxLongFiles == 6
MaxTermFiles == 6
MaxIgnored == 1
\* Dependencies the go module of the directory declares.
MaxDeps == 2
\* Seeds of a call of buildIDString, characters of a seed, calls.
MaxSeeds == 2
MaxSeedLen == 2
MaxCalls == 2
\* Versions of a release; image archives, binaries, tarballs of a version.
MaxVersions == 2
MaxArtifacts == 1
\* SPDX objects built by NewSPDX.
MaxInstances == 2
\* Calls of FileFromPath.
MaxPathCalls == 2

\* ------------------------------------------------------- program constants
MaxWorkers == 5

NONE == "NONE"

Nil == "nil"

\* License identifiers the classifier can report.
LicenseIDs == {"MIT"}
DirLicenseIDs == {"Apache-2.0"}

\* What the directory holds under a path: a file without license text, a
\* file with a license text, a file LicenseFromFile fails on, a file
\* ReadSourceFile fails on, a file AddFile rejects.
Kinds == {"plain", "licensed", "unclassifiable", "unreadable", "rejected"}

VARIABLES
  disk,         \* the directory: the kind of the file under each path
  ignored,      \* the paths the ignore patterns of the directory match
  dirLicense,   \* the license of the directory's LICENSE file, or Nil
  mpc,          \* position of PackageFromDirectory itself
  tree,         \* result of GetDirectoryTree
  patterns,     \* ignore patterns: the set of paths they match
  fileList,     \* fileList after ApplyIgnorePatterns
  licenseTag,   \* licenseTag local
  pkg,          \* named result pkg: Nil or the reference "pkg"
  pkgFiles,     \* pkg.Files of the package built by this call
  pkgDeps,      \* dependencies attached by AddDependency
  err,          \* named result err, shared with every worker
  lic,          \* local lic, shared with every worker
  next,         \* index in fileList of the next path to dispatch
  wpc,          \* position of each processDirectoryFile goroutine
  doneArg,      \* argument of the deferred t.Done, evaluated at the defer
  reg,          \* value a worker has just loaded from err or lic
  f,            \* the File a worker is building
  t,            \* the throttler
  goMod,        \* what the go.mod test of line 224 saw; history: the call
                \* of the dependency phase that failed, if any
  deps,         \* dependencies of the go module still to attach
  crashed,      \* a goroutine panicked (nil pointer dereference)
  started,      \* history: how many goroutines were started for each path
  firstFailed,  \* history: the path whose scan was the first to fail, or 0
  alloc,        \* the calls of buildIDString: seed lists, results, tokens drawn
  stage,        \* GenerateBillOfMaterials: position, documents, files written
  config,       \* defaultSPDXOptions and the SPDX objects NewSPDX returned
  fromPath,     \* the calls of FileFromPath
  tagging       \* TagRepository: position, locals, the git repository

\* The variables of PackageFromDirectory and its goroutines.
dirVars == <<disk, ignored, dirLicense, mpc, tree, patterns, fileList, licenseTag,
             pkg, pkgFiles, pkgDeps, err, lic, next, wpc, doneArg, reg, f, t,
             goMod, deps, crashed, started, firstFailed>>

vars == <<dirVars, alloc, stage, config, fromPath, tagging>>

Paths == DOMAIN disk

\* ------------------------------------------------------------------ errors
\* An error value: the operation it comes from (a path for a scan error),
\* and the context errors.Wrap put around it last.
\* The cause of a scan error is the path scanned; DirOp is the cause of the
\* errors of the directory-level calls.
DirOp == 0
NewError(cause) == [cause |-> cause, ctx |-> "", more |-> 0]

\* The nil error.
NilErr == [cause |-> -1, ctx |-> "", more |-> 0]

\* errors.Wrap returns nil for a nil error, else the error with the message
\* as context.
Wrap(e, msg) == IF e = NilErr THEN NilErr ELSE [e EXCEPT !.ctx = msg]

\* ---------------------------------------------------------------- throttler
\* throttler.New(maxWorkers, totalJobs)
NewThrottler(maxWorkers, totalJobs) ==
  [maxWorkers |-> maxWorkers, totalJobs |-> totalJobs, workerCount |-> 0,
   jobsStarted |-> 0, jobsCompleted |-> 0, doneChan |-> 0, errs |-> <<>>]

\* Throttler.Err: nil without recorded errors, else a multiError whose text
\* is that of the first recorded error plus the number of the others.
ThrottlerErr(th) ==
  IF Len(th.errs) = 0 THEN NilErr
  ELSE [th.errs[1] EXCEPT !.more = Len(th.errs) - 1]

\* ApplyIgnorePatterns: the entries no pattern matches, order kept.
ApplyIgnorePatterns(list, pats) ==
  SelectSeq(list, LAMBDA p : p \notin pats)

NewFile == [FileName |-> 0, Name |-> 0, LicenseInfoInFile |-> "",
            LicenseConcluded |-> "", checksum |-> FALSE]

\* A goroutine that was started by the go statement and has not called Done.
Running(w) == wpc[w] \notin {"idle", "finished"}

\* ------------------------------------------------------------ buildIDString
\* A string is the sequence of its characters.
Letters == {"a", "S", "P", "D", "X", "R", "e", "f"}
HexDigits == <<"0", "1", "2", "3", "4", "5", "6", "7">>
Digits == {HexDigits[i] : i \in DOMAIN HexDigits}

\* Mutant of ValidIDChars: the class of the expression lacks the hyphen.
ValidIDCharsNoHyphen == Letters \cup Digits \cup {"."}

\* validIDCharsRe, [^a-zA-Z0-9-.]+, matches the runs of characters that are
\* not of this class.
ValidIDChars == Letters \cup Digits \cup {"-", "."}

\* The characters of the seeds: a letter, a path separator, a character
\* that is no part of an ID.
SeedChars == {"a", "/", "!"}

SPDXRefPrefix == <<"S", "P", "D", "X", "R", "e", "f", "-">>

\* Seeds that carry the prefix as they are, once ':' is replaced, and once an
\* illegal character is removed.
PrefixedSeeds ==
  {SPDXRefPrefix, SPDXRefPrefix \o <<"a">>,
   <<"S", "P", "D", "X", "R", "e", "f", ":">>, <<"!">> \o SPDXRefPrefix}

Seeds == UNION {[1..n -> SeedChars] : n \in 0..MaxSeedLen} \cup PrefixedSeeds

SeedLists == UNION {[1..n -> Seeds] : n \in 0..MaxSeeds}

\* strings.HasPrefix
HasPrefix(s, prefix) ==
  Len(s) >= Len(prefix) /\ SubSeq(s, 1, Len(prefix)) = prefix

\* lines 112-114: strings.ReplaceAll(s, r, "-") for "/" and ":"
ReplaceSeparators(s) ==
  [i \in 1..Len(s) |-> IF s[i] \in {"/", ":"} THEN "-" ELSE s[i]]

\* line 115: reg.ReplaceAllString(s, "")
RemoveInvalidChars(s) ==
  SelectSeq(s, LAMBDA c : c \in ValidIDChars)

Sanitize(s) == RemoveInvalidChars(ReplaceSeparators(s))

\* lines 110-122: validSeeds after the loop over the seeds.
ValidSeeds(seeds) ==
  SelectSeq([i \in 1..Len(seeds) |-> Sanitize(seeds[i])], LAMBDA s : s # <<>>)

\* lines 110-122: numValidSeeds after the loop over the seeds.
NumValidSeeds(seeds) ==
  Len(SelectSeq(ValidSeeds(seeds), LAMBDA s : ~HasPrefix(s, SPDXRefPrefix)))

\* lines 129-136: the loop that joins validSeeds with "-".
RECURSIVE JoinSeeds(_, _)
JoinSeeds(id, validSeeds) ==
  IF validSeeds = <<>> THEN id
  ELSE JoinSeeds((IF id # <<>> THEN id \o <<"-">> ELSE id) \o Head(validSeeds),
                 Tail(validSeeds))

\* uuid.New().String(): the n-th token the generator hands out, in short
\* form (hexadecimal digits and hyphens); no token is handed out twice.
UUIDString(n) == <<HexDigits[(n % Len(HexDigits)) + 1], "-", "4">>

\* Mutant of buildIDString: without meaningful seed the seeds are joined as
\* they are, and no token is drawn.
buildIDStringNoToken(seeds, uuid) ==
  JoinSeeds(<<>>, ValidSeeds(seeds))

\* Mutant of buildIDString: the illegal characters are not removed.
buildIDStringUnstripped(seeds, uuid) ==
  LET kept == SelectSeq([i \in 1..Len(seeds) |-> ReplaceSeparators(seeds[i])],
                        LAMBDA s : s # <<>>)
  IN JoinSeeds(<<>>, IF NumValidSeeds(seeds) = 0 THEN Append(kept, uuid)
                     ELSE kept)

\* Mutant of buildIDString: without meaningful seed the token replaces the
\* seeds.
buildIDStringTokenOnly(seeds, uuid) ==
  JoinSeeds(<<>>, IF NumValidSeeds(seeds) = 0 THEN <<uuid>>
                  ELSE ValidSeeds(seeds))

\* Mutant of buildIDString: only the seeds without the prefix are joined.
buildIDStringMeaningfulOnly(seeds, uuid) ==
  JoinSeeds(<<>>,
            IF NumValidSeeds(seeds) = 0 THEN Append(ValidSeeds(seeds), uuid)
            ELSE SelectSeq(ValidSeeds(seeds),
                           LAMBDA s : ~HasPrefix(s, SPDXRefPrefix)))

\* buildIDString(seeds...), lines 106-137; uuid is the token uuid.New()
\* returns if it is called.
buildIDString(seeds, uuid) ==
  JoinSeeds(<<>>,
            IF NumValidSeeds(seeds) = 0 THEN Append(ValidSeeds(seeds), uuid)
            ELSE ValidSeeds(seeds))

\* No call of buildIDString yet for the given seed lists.
NewAlloc(inputs) == [inputs |-> inputs, calls |-> <<>>, uuids |-> 0]

AllocIdle == NewAlloc(<<>>)

\* ------------------------------------------------------------ anago stage
\* d.state.versions.Ordered(): the versions of the release, all different.
Versions(n) == [i \in 1..n |-> i]

GENERATED_FROM == "GENERATED_FROM"

\* fmt.Sprintf("kubernetes-%s", version)
KubernetesRef(version) == <<"kubernetes-", version>>

\* fmt.Sprintf("https://sbom.k8s.io/%s/source", version)
SourceNamespace(version) == <<"https://sbom.k8s.io/", version, "/source">>

\* fmt.Sprintf("https://sbom.k8s.io/%s/release", version)
ReleaseNamespace(version) == <<"https://sbom.k8s.io/", version, "/release">>

\* os.TempDir()/source-bom-<version>.spdx and release-bom-<version>.spdx
SourceBOMPath(version) == <<"source-bom-", version, ".spdx">>
ReleaseBOMPath(version) == <<"release-bom-", version, ".spdx">>

\* The relationship the stage attaches to packages, binaries and tarballs.
SourceRelationship(version) ==
  [Type |-> GENERATED_FROM,
   PeerReference |-> "SPDXRef-Package-kubernetes",
   PeerExtReference |-> KubernetesRef(version)]

\* A Document object: id tells the objects apart.  Packages maps each
\* package to its relationships, Files holds the files with theirs.
NewDocument(id, namespace, name, packages) ==
  [id |-> id, Namespace |-> namespace, Name |-> name,
   Packages |-> [p \in 1..packages |-> {}], Files |-> {},
   ExternalDocRefs |-> <<>>]

NoDocument == NewDocument(0, <<>>, <<>>, 0)

\* Document.AddFile, then File.AddRelationship on the file added.
DocAddFile(doc, name, relationships) ==
  [doc EXCEPT !.Files = {g \in @ : g.Name # name}
                          \cup {[Name |-> name, Relationships |-> relationships]}]

\* Package.AddRelationship on every package of the document.
DocStampPackages(doc, relationship) ==
  [doc EXCEPT !.Packages = [p \in DOMAIN @ |-> @[p] \cup {relationship}]]

\* Document.Write(path): the file at path holds the document as it is now,
\* or the write fails.
DocWrite(written, doc, path, ok, version, done) ==
  Append(written, [doc |-> doc.id, path |-> path, ok |-> ok, content |-> doc,
                   version |-> version, done |-> done])

\* GenerateBillOfMaterials before its first statement, for the given
\* versions: no document built, nothing written.
\*   vi      index of the version of the loop of line 755
\*   source  spdxDOC; doc: doc of GenerateVersionArtifactsBOM
\*   docs    Document objects built so far
\*   done    history: the calls that succeeded for the current version
\*   written history: the calls of Document.Write, in order
\*   generated  history: the calls of GenerateSourceTreeBOM
NewStage(pc, versions) ==
  [pc |-> pc, versions |-> versions, vi |-> 1, err |-> "", source |-> NoDocument,
   doc |-> NoDocument, images |-> 0, docs |-> 0, done |-> {}, written |-> <<>>,
   generated |-> 0]

StageIdle == NewStage("idle", <<>>)

\* The version the loop of line 755 is at.
Version == stage.versions[stage.vi]

\* return errors.Wrap(err, msg)
StageReturn(st, msg) == [st EXCEPT !.pc = "returned", !.err = msg]

\* The head of the loop of line 755 for index vi: the next version, or
\* return nil after the last.
LoopFrom(st, vi) ==
  IF vi <= Len(st.versions)
  THEN [st EXCEPT !.pc = "writeSource", !.vi = vi, !.doc = NoDocument,
                  !.images = 0, !.done = {}]
  ELSE [st EXCEPT !.pc = "returned", !.err = "", !.doc = NoDocument,
                  !.images = 0, !.done = {}]


\* -------------------------------------------------------------- options
\* The options of spdx.go lines 68-77 that are flags PackageFromDirectory
\* and its callees read.
OptionNames == {"ProcessGoModules", "OnlyDirectDeps", "ScanLicenses"}

\* var defaultSPDXOptions, lines 83-90: the one Options value of the
\* process, as the declaration initializes it.
DefaultSPDXOptions ==
  [ProcessGoModules |-> TRUE, OnlyDirectDeps |-> FALSE, ScanLicenses |-> TRUE]

\* The process before any call of NewSPDX.  heap holds the Options values
\* of the process under their addresses.  instances holds, for each SPDX
\* object, the address its options field points to and, as history, the
\* options the object was built with as changed by its own writes.
ConfigIdle ==
  [heap |-> [defaultSPDXOptions |-> DefaultSPDXOptions], instances |-> <<>>]

\* SPDX.Options(), lines 79-81: the pointer the object holds.
Options(i) == config.instances[i].options

\* The options a reader of spdx.Options() sees.
ObservedOptions(i) == config.heap[Options(i)]

\* ----------------------------------------------------------- FileFromPath
\* The nil *File.
NilFile == [NewFile EXCEPT !.FileName = -1]

\* No call of FileFromPath yet.
\*   path, f  the argument and the File of the call that runs
\*   reads    history: the calls of ReadSourceFile of the call that runs
\*   calls    history: the calls that returned, with what they returned
FromPathIdle ==
  [pc |-> "idle", path |-> 0, f |-> NilFile, reads |-> 0, calls |-> <<>>]

\* ---------------------------------------------------------- TagRepository
\* Branch names are sequences of parts, so that strings.HasPrefix can look
\* at their first characters.
DefaultBranch == <<"master">>
ReleaseBranchName == <<"release-", "1.22">>
BranchNames == {DefaultBranch, ReleaseBranchName}
ReleasePrefix == <<"release-">>

\* The empty branch name CurrentBranch returns for a detached HEAD.
NoBranch == <<>>

\* The commit of options.BuildVersion; the other commits of the repository
\* before the call are BuildCommit + 1 .. InitialCommits.
BuildCommit == 1
InitialCommits == 3

\* The repository before the call: HEAD on the default branch, whose tip
\* is masterTip; the release branch exists unless it has to be created; the
\* versions in existing have a tag.  0 stands for no commit.
NewRepo(versions, masterTip, createReleaseBranch, existing) ==
  [head |-> [branch |-> DefaultBranch, commit |-> masterTip],
   branches |-> [b \in BranchNames |->
                   IF b = DefaultBranch THEN masterTip
                   ELSE IF createReleaseBranch THEN 0 ELSE InitialCommits],
   tags |-> [v \in DOMAIN versions |-> IF v \in existing THEN InitialCommits ELSE 0],
   commits |-> InitialCommits]

\* git checkout -b <name> <commit>
GitCheckoutNewBranch(repo, name, commit) ==
  [repo EXCEPT !.branches[name] = commit,
               !.head = [branch |-> name, commit |-> commit]]

\* git checkout <branch>
GitCheckoutBranch(repo, name) ==
  [repo EXCEPT !.head = [branch |-> name, commit |-> repo.branches[name]]]

\* git checkout <commit>: HEAD is detached at the commit.
GitCheckoutCommit(repo, commit) ==
  [repo EXCEPT !.head = [branch |-> NoBranch, commit |-> commit]]

\* A new commit on top of HEAD (git commit --allow-empty, git merge): HEAD
\* and the branch it is on, if any, move to it.
GitNewCommit(repo) ==
  [repo EXCEPT !.commits = @ + 1,
               !.head.commit = repo.commits + 1,
               !.branches = [b \in BranchNames |->
                               IF b = repo.head.branch THEN repo.commits + 1
                               ELSE @[b]]]

\* git tag <version>: the tag points to the commit of HEAD.
GitTag(repo, version) ==
  [repo EXCEPT !.tags[version] = repo.head.commit]

\* TagRepository before its first statement.
\*   vi, commit, branch   index of the version of the loop, locals
\*   log   history: the calls of d.impl that change or read the repository
NewTagging(pc, versions, prime, create, releaseBranch, customRef, repo) ==
  [pc |-> pc, versions |-> versions, prime |-> prime,
   createReleaseBranch |-> create,
   ReleaseBranch |-> releaseBranch, customRef |-> customRef,
   vi |-> 1, commit |-> 0, branch |-> NoBranch, err |-> "", repo |-> repo,
   log |-> <<>>]

TaggingIdle ==
  NewTagging("idle", <<>>, 0, FALSE, DefaultBranch, FALSE,
             NewRepo(<<>>, BuildCommit, FALSE, {}))

\* One call of d.impl on the repository, as the log keeps it.
TagOp(tg, op, arg, ok, repo) ==
  [tg EXCEPT !.repo = repo,
             !.log = Append(@, [op |-> op, vi |-> tg.vi, arg |-> arg, ok |-> ok,
                                branch |-> tg.branch, head |-> repo.head])]

\* return errors.Wrap(err, msg)
TagReturn(tg, msg) == [tg EXCEPT !.pc = "returned", !.err = msg]

\* The head of the loop of line 409 for index vi.
TagLoopFrom(tg, vi) ==
  IF vi <= Len(tg.versions)
  THEN [tg EXCEPT !.pc = "revParse", !.vi = vi, !.commit = 0,
                  !.branch = NoBranch]
  ELSE [tg EXCEPT !.pc = "returned", !.err = "", !.commit = 0,
                  !.branch = NoBranch]

\* The directories of at most maxFiles entries.
Disks(maxFiles) == UNION {[1..n -> Kinds] : n \in 0..maxFiles}

\* The directories of at most MaxLongFiles entries of which at most one is
\* not a plain file.
LongDisks ==
  UNION {{d \in [1..n -> Kinds] :
            \A p, q \in 1..n : d[p] # "plain" /\ d[q] # "plain" => p = q}
         : n \in 0..MaxLongFiles}

\* The directories of at most MaxTermFiles readable files or of that many
\* files the last of which cannot be read.
TermDisks ==
  UNION {{d \in [1..n -> {"plain", "unreadable"}] :
            \A p \in 1..n : d[p] = "unreadable" => p = n}
         : n \in 0..MaxTermFiles}

\* The state before the call, for one of the given directories and at most
\* maxIgnored of its paths matched by the ignore patterns.
InitDir(disks, maxIgnored) ==
  /\ disk \in disks
  /\ ignored \in {s \in SUBSET DOMAIN disk : Cardinality(s) <= maxIgnored}
  /\ dirLicense \in {Nil} \cup DirLicenseIDs
  /\ mpc = "abs"
  /\ tree = <<>>
  /\ patterns = {}
  /\ fileList = <<>>
  /\ licenseTag = ""
  /\ pkg = Nil
  /\ pkgFiles = {}
  /\ pkgDeps = 0
  /\ err = NilErr
  /\ lic = Nil
  /\ next = 1
  /\ wpc = [w \in Paths |-> "idle"]
  /\ doneArg = [w \in Paths |-> NilErr]
  /\ reg = [w \in Paths |-> NilErr]
  /\ f = [w \in Paths |-> NewFile]
  /\ t = NewThrottler(MaxWorkers, 0)
  /\ goMod = [exists |-> FALSE, process |-> FALSE, failed |-> ""]
  /\ deps = 0
  /\ crashed = FALSE
  /\ started = [w \in Paths |-> 0]
  /\ firstFailed = 0

\* PackageFromDirectory alone: no other operation of the program runs.
InitWith(disks, maxIgnored) ==
  /\ InitDir(disks, maxIgnored)
  /\ alloc = AllocIdle
  /\ stage = StageIdle
  /\ config = ConfigIdle
  /\ fromPath = FromPathIdle
  /\ tagging = TaggingIdle

Init == InitWith(Disks(MaxFiles), MaxIgnored)

InitScan == InitWith(Disks(MaxScanFiles), MaxIgnored)

InitLong == InitWith(LongDisks, 0)

InitTerm == InitWith(TermDisks, 0)

\* ------------------------------------------------- PackageFromDirectory
workerVars == <<wpc, doneArg, reg, f, firstFailed>>
listVars == <<disk, ignored, dirLicense, tree, patterns, fileList, licenseTag>>

\* Mutant of ReturnError: the error is returned along with the package
\* built so far.
ReturnErrorWithPackage(e, msg) ==
  /\ pkg' = pkg
  /\ err' = Wrap(e, msg)
  /\ mpc' = "returned"

\* return nil, errors.Wrap(err, msg): both named results are assigned.
ReturnError(e, msg) ==
  /\ pkg' = Nil
  /\ err' = Wrap(e, msg)
  /\ mpc' = "returned"

\* lines 142-145
Abs ==
  /\ ~crashed
  /\ mpc = "abs"
  /\ \/ mpc' = "tree" /\ err' = NilErr /\ pkg' = pkg
     \/ ReturnError(NewError(DirOp), "getting absolute directory path")
  /\ UNCHANGED <<alloc, stage, config, fromPath, tagging, listVars, pkgFiles, pkgDeps, lic, next, workerVars, t, goMod, deps, crashed, started>>

\* lines 146-149
GetDirectoryTree ==
  /\ ~crashed
  /\ mpc = "tree"
  /\ \/ /\ tree' = [i \in 1..Cardinality(DOMAIN disk) |-> i]
        /\ mpc' = "reader" /\ err' = NilErr /\ pkg' = pkg
     \/ /\ ReturnError(NewError(DirOp), "building directory tree")
        /\ tree' = tree
  /\ UNCHANGED <<alloc, stage, config, fromPath, tagging, disk, ignored, dirLicense, patterns, fileList, licenseTag,
                 pkgFiles, pkgDeps, lic, next, workerVars, t, goMod, deps, crashed, started>>

\* lines 150-153
LicenseReader ==
  /\ ~crashed
  /\ mpc = "reader"
  /\ \/ mpc' = "dirLicense" /\ err' = NilErr /\ pkg' = pkg
     \/ ReturnError(NewError(DirOp), "creating license reader")
  /\ UNCHANGED <<alloc, stage, config, fromPath, tagging, listVars, pkgFiles, pkgDeps, lic, next, workerVars, t, goMod, deps, crashed, started>>

\* lines 154-161
GetDirectoryLicense ==
  /\ ~crashed
  /\ mpc = "dirLicense"
  /\ \/ /\ lic' = dirLicense
        /\ licenseTag' = IF lic' # Nil THEN lic' ELSE ""
        /\ mpc' = "patterns" /\ err' = NilErr /\ pkg' = pkg
     \/ /\ ReturnError(NewError(DirOp), "scanning directory for licenses")
        /\ lic' = Nil
        /\ licenseTag' = licenseTag
  /\ UNCHANGED <<alloc, stage, config, fromPath, tagging, disk, ignored, dirLicense, tree, patterns, fileList, pkgFiles,
                 pkgDeps, next, workerVars, t, goMod, deps, crashed, started>>

\* lines 163-184: the ignore patterns, the filtered list, the new package and
\* the throttler.
IgnorePatterns ==
  /\ ~crashed
  /\ mpc = "patterns"
  /\ \/ /\ patterns' = ignored
        /\ fileList' = ApplyIgnorePatterns(tree, patterns')
        /\ pkg' = "pkg"
        /\ pkgFiles' = {}
        /\ err' = NilErr
        /\ t' = NewThrottler(MaxWorkers, Len(fileList'))
        /\ mpc' = IF Len(fileList') = 0 THEN "terr" ELSE "dispatch"
     \/ /\ ReturnError(NewError(DirOp), "building ignore patterns list")
        /\ UNCHANGED <<patterns, fileList, pkgFiles, t>>
  /\ UNCHANGED <<alloc, stage, config, fromPath, tagging, disk, ignored, dirLicense, tree, licenseTag, pkgDeps, lic, next,
                 workerVars, goMod, deps, crashed, started>>

\* Mutant of Dispatch: the loop starts the goroutines without calling
\* t.Throttle.
DispatchUnthrottled ==
  /\ ~crashed
  /\ mpc = "dispatch"
  /\ next <= Len(fileList)
  /\ wpc' = [wpc EXCEPT ![fileList[next]] = "start"]
  /\ started' = [started EXCEPT ![fileList[next]] = @ + 1]
  /\ next' = next + 1
  /\ mpc' = IF next = Len(fileList) THEN "terr" ELSE "dispatch"
  /\ UNCHANGED <<alloc, stage, config, fromPath, tagging, listVars, pkg, pkgFiles, pkgDeps, err, lic, doneArg, reg, f,
                 firstFailed, goMod, deps, crashed, t>>

\* Mutant of Dispatch: the loop is left as soon as the throttler holds an
\* error.
DispatchUntilError ==
  /\ ~crashed
  /\ mpc = "dispatch"
  /\ next <= Len(fileList)
  /\ IF Len(t.errs) > 0
     THEN /\ mpc' = "terr"
          /\ UNCHANGED <<wpc, started, next, t>>
     ELSE /\ wpc' = [wpc EXCEPT ![fileList[next]] = "start"]
          /\ started' = [started EXCEPT ![fileList[next]] = @ + 1]
          /\ next' = next + 1
          /\ LET js == t.jobsStarted + 1
                 wc == t.workerCount + 1
             IN IF wc = t.maxWorkers
                THEN /\ t' = [t EXCEPT !.jobsStarted = js,
                                       !.jobsCompleted = @ + 1,
                                       !.workerCount = wc - 1]
                     /\ mpc' = "waitSlot"
                ELSE /\ t' = [t EXCEPT !.jobsStarted = js, !.workerCount = wc]
                     /\ mpc' = IF js = t.totalJobs THEN "drain" ELSE "dispatch"
  /\ UNCHANGED <<alloc, stage, config, fromPath, tagging, listVars, pkg, pkgFiles, pkgDeps, err, lic, doneArg, reg, f,
                 firstFailed, goMod, deps, crashed>>

\* lines 215-217 and Throttler.Throttle up to its first receive: the go
\* statement starts the goroutine, then Throttle counts the job and decides
\* whether to wait for a free slot.
Dispatch ==
  /\ ~crashed
  /\ mpc = "dispatch"
  /\ next <= Len(fileList)
  /\ wpc' = [wpc EXCEPT ![fileList[next]] = "start"]
  /\ started' = [started EXCEPT ![fileList[next]] = @ + 1]
  /\ next' = next + 1
  /\ LET js == t.jobsStarted + 1
         wc == t.workerCount + 1
     IN IF wc = t.maxWorkers
        THEN /\ t' = [t EXCEPT !.jobsStarted = js,
                               !.jobsCompleted = @ + 1,
                               !.workerCount = wc - 1]
             /\ mpc' = "waitSlot"
        ELSE /\ t' = [t EXCEPT !.jobsStarted = js, !.workerCount = wc]
             /\ mpc' = IF js = t.totalJobs THEN "drain" ELSE "dispatch"
  /\ UNCHANGED <<alloc, stage, config, fromPath, tagging, listVars, pkg, pkgFiles, pkgDeps, err, lic, doneArg, reg, f,
                 firstFailed, goMod, deps, crashed>>

\* Mutant of Receive: the loop that waits for the jobs stops one receive
\* early.
ReceiveOneShort ==
  /\ ~crashed
  /\ mpc \in {"waitSlot", "drain"}
  /\ IF mpc = "waitSlot"
     THEN /\ t.doneChan > 0
          /\ t' = [t EXCEPT !.doneChan = @ - 1]
          /\ mpc' = IF t.jobsStarted = t.totalJobs THEN "drain" ELSE "dispatch"
     ELSE IF t.jobsCompleted + 1 < t.totalJobs
          THEN /\ t.doneChan > 0
               /\ t' = [t EXCEPT !.jobsCompleted = @ + 1, !.doneChan = @ - 1]
               /\ mpc' = mpc
          ELSE /\ t' = t
               /\ mpc' = "terr"
  /\ UNCHANGED <<alloc, stage, config, fromPath, tagging, listVars, pkg, pkgFiles, pkgDeps, err, lic, next, workerVars,
                 goMod, deps, crashed, started>>

\* The rest of Throttler.Throttle, which blocks on <-t.doneChan: with every
\* slot taken it receives once; when every job was started it receives
\* until every job is counted completed, and returns.
Receive ==
  /\ ~crashed
  /\ mpc \in {"waitSlot", "drain"}
  /\ IF mpc = "waitSlot"
     THEN /\ t.doneChan > 0
          /\ t' = [t EXCEPT !.doneChan = @ - 1]
          /\ mpc' = IF t.jobsStarted = t.totalJobs THEN "drain" ELSE "dispatch"
     ELSE IF t.jobsCompleted < t.totalJobs
          THEN /\ t.doneChan > 0
               /\ t' = [t EXCEPT !.jobsCompleted = @ + 1, !.doneChan = @ - 1]
               /\ mpc' = mpc
          ELSE /\ t' = t
               /\ mpc' = "terr"
  /\ UNCHANGED <<alloc, stage, config, fromPath, tagging, listVars, pkg, pkgFiles, pkgDeps, err, lic, next, workerVars,
                 goMod, deps, crashed, started>>

\* Mutant of ThrottlerError: the error of the throttler is not looked at.
ThrottlerErrorDropped ==
  /\ ~crashed
  /\ mpc = "terr"
  /\ mpc' = "gomod"
  /\ UNCHANGED <<pkg, err>>
  /\ UNCHANGED <<alloc, stage, config, fromPath, tagging, listVars, pkgFiles, pkgDeps, lic, next, workerVars, t, goMod,
                 deps, crashed, started>>

\* lines 220-222
ThrottlerError ==
  /\ ~crashed
  /\ mpc = "terr"
  /\ IF ThrottlerErr(t) # NilErr
     THEN /\ pkg' = Nil
          /\ err' = ThrottlerErr(t)
          /\ mpc' = "returned"
     ELSE /\ mpc' = "gomod"
          /\ UNCHANGED <<pkg, err>>
  /\ UNCHANGED <<alloc, stage, config, fromPath, tagging, listVars, pkgFiles, pkgDeps, lic, next, workerVars, t, goMod,
                 deps, crashed, started>>

\* ------------------------------------------------ processDirectoryFile
mainVars == <<mpc, next, pkg, pkgDeps, goMod, deps, started>>

\* What one statement of the goroutine scanning path w reads and writes: its
\* own position and locals (pc, doneArg, reg, f), the variables it shares
\* with the other goroutines (err, lic), the files of the package, and
\* whether the process panicked.
View(w) ==
  [pc |-> wpc[w], doneArg |-> doneArg[w], reg |-> reg[w], f |-> f[w],
   err |-> err, lic |-> lic, files |-> pkgFiles, crashed |-> crashed,
   firstFailed |-> firstFailed]

\* History: the first path one of whose calls returned an error.
Failed(s, w, e) ==
  IF s.firstFailed = 0 /\ e # NilErr THEN w ELSE s.firstFailed

\* lines 187-190: the arguments of the deferred call are evaluated when the
\* defer statement runs, so t.Done receives the value err has now.
Start(w, s) ==
  [s EXCEPT !.doneArg = s.err,
            !.f = [NewFile EXCEPT !.FileName = w],
            !.pc = "classify"]

\* Reader.LicenseFromFile: the license found in the file (nil when there is
\* none) or an error.
LicenseFromFile(w) ==
  IF disk[w] = "unclassifiable" THEN [license |-> Nil, err |-> NewError(w)]
  ELSE IF disk[w] = "licensed"
       THEN [license |-> CHOOSE l \in LicenseIDs : TRUE, err |-> NilErr]
       ELSE [license |-> Nil, err |-> NilErr]

\* line 191: lic, err = reader.LicenseFromFile(f.SourceFile)
Classify(w, s) ==
  [s EXCEPT !.lic = LicenseFromFile(w).license,
            !.err = LicenseFromFile(w).err,
            !.firstFailed = Failed(s, w, LicenseFromFile(w).err),
            !.pc = "checkLic"]

\* if err != nil: one load of the shared err.
CheckErr(s, failed, passed) ==
  [s EXCEPT !.pc = IF s.err # NilErr THEN failed ELSE passed]

\* err = errors.Wrap(err, msg): the load of the argument.
WrapLoad(s, to) ==
  [s EXCEPT !.reg = s.err, !.pc = to]

\* err = errors.Wrap(err, msg): the store of the result, then return.
WrapStore(s, msg) ==
  [s EXCEPT !.err = Wrap(s.reg, msg), !.reg = NilErr, !.pc = "done"]

\* lines 196-198: f.LicenseInfoInFile = NONE; if lic == nil, the first load
\* of the shared lic.
LicNil(s) ==
  IF s.lic = Nil
  THEN [s EXCEPT !.f.LicenseInfoInFile = NONE,
                 !.f.LicenseConcluded = licenseTag,
                 !.pc = "read"]
  ELSE [s EXCEPT !.f.LicenseInfoInFile = NONE, !.pc = "licID"]

\* line 200: lic.LicenseID, the second load of the shared lic; a nil lic is
\* a nil pointer dereference, which panics.
LicID(s) ==
  IF s.lic = Nil
  THEN [s EXCEPT !.crashed = TRUE, !.pc = "panic"]
  ELSE [s EXCEPT !.f.LicenseInfoInFile = s.lic, !.pc = "read"]

\* File.ReadSourceFile: the checksums of the content, or an error.
ReadSourceFileErr(w) ==
  IF disk[w] = "unreadable" THEN NewError(w) ELSE NilErr

\* line 203: err = f.ReadSourceFile(...)
ReadSourceFile(w, s) ==
  [s EXCEPT !.err = ReadSourceFileErr(w),
            !.f.checksum = (ReadSourceFileErr(w) = NilErr),
            !.firstFailed = Failed(s, w, ReadSourceFileErr(w)),
            !.pc = "checkRead"]

\* Package.AddFile: under the package's lock, the file is stored under its
\* ID, which is derived from the file's name; an error when no ID can be
\* built.
AddFileErr(w) ==
  IF disk[w] = "rejected" THEN NewError(w) ELSE NilErr

PackageAddFile(files, file) ==
  {g \in files : g.Name # file.Name} \cup {file}

\* lines 207-208: f.Name = ...; err = pkg.AddFile(f)
AddFile(w, s) ==
  LET file == [s.f EXCEPT !.Name = w]
  IN [s EXCEPT !.f = file,
               !.err = AddFileErr(w),
               !.firstFailed = Failed(s, w, AddFileErr(w)),
               !.files = IF AddFileErr(w) = NilErr
                         THEN PackageAddFile(s.files, file)
                         ELSE s.files,
               !.pc = "checkAdd"]

\* The statement of processDirectoryFile the goroutine of w is at.
Step(w, s) ==
  CASE s.pc = "start" -> Start(w, s)
    [] s.pc = "classify" -> Classify(w, s)
    [] s.pc = "checkLic" -> CheckErr(s, "wrapLicLoad", "licNil")
    [] s.pc = "wrapLicLoad" -> WrapLoad(s, "wrapLicStore")
    [] s.pc = "wrapLicStore" -> WrapStore(s, "scanning file for license")
    [] s.pc = "licNil" -> LicNil(s)
    [] s.pc = "licID" -> LicID(s)
    [] s.pc = "read" -> ReadSourceFile(w, s)
    [] s.pc = "checkRead" -> CheckErr(s, "wrapReadLoad", "add")
    [] s.pc = "wrapReadLoad" -> WrapLoad(s, "wrapReadStore")
    [] s.pc = "wrapReadStore" -> WrapStore(s, "checksumming file")
    [] s.pc = "add" -> AddFile(w, s)
    [] s.pc = "checkAdd" -> CheckErr(s, "wrapAddLoad", "done")
    [] s.pc = "wrapAddLoad" -> WrapLoad(s, "wrapAddStore")
    [] s.pc = "wrapAddStore" -> WrapStore(s, "adding file to the spdx package")

\* processDirectoryFile from the statement it is at to its return.
RECURSIVE Run(_, _)
Run(w, s) ==
  IF s.pc \in {"done", "panic"} THEN s ELSE Run(w, Step(w, s))

Store(w, s) ==
  /\ wpc' = [wpc EXCEPT ![w] = s.pc]
  /\ doneArg' = [doneArg EXCEPT ![w] = s.doneArg]
  /\ reg' = [reg EXCEPT ![w] = s.reg]
  /\ f' = [f EXCEPT ![w] = s.f]
  /\ err' = s.err
  /\ lic' = s.lic
  /\ pkgFiles' = s.files
  /\ crashed' = s.crashed
  /\ firstFailed' = s.firstFailed

\* One statement of one goroutine.
WorkerStep(w) ==
  /\ ~crashed
  /\ wpc[w] \notin {"idle", "done", "panic", "finished"}
  /\ Store(w, Step(w, View(w)))
  /\ UNCHANGED <<alloc, stage, config, fromPath, tagging, mainVars, listVars, t>>

\* One goroutine from its first statement to its return, without preemption.
WorkerRun(w) ==
  /\ ~crashed
  /\ wpc[w] = "start"
  /\ Store(w, Run(w, View(w)))
  /\ UNCHANGED <<alloc, stage, config, fromPath, tagging, mainVars, listVars, t>>

\* Mutant of ThrottlerDone: a job that hands over an error does not send
\* to doneChan.
ThrottlerDoneSilentOnError(th, e) ==
  [th EXCEPT !.errs = IF e # NilErr THEN Append(@, e) ELSE @,
             !.doneChan = IF e # NilErr THEN @ ELSE @ + 1]

\* Throttler.Done(err), run by the defer with the argument evaluated in
\* Start: a non-nil error is appended to errs, then doneChan is sent to.
ThrottlerDone(th, e) ==
  [th EXCEPT !.errs = IF e # NilErr THEN Append(@, e) ELSE @,
             !.doneChan = @ + 1]

Done(w) ==
  /\ ~crashed
  /\ wpc[w] = "done"
  /\ t.doneChan < t.totalJobs
  /\ t' = ThrottlerDone(t, doneArg[w])
  /\ wpc' = [wpc EXCEPT ![w] = "finished"]
  /\ doneArg' = [doneArg EXCEPT ![w] = NilErr]
  /\ f' = [f EXCEPT ![w] = NewFile]
  /\ UNCHANGED <<alloc, stage, config, fromPath, tagging, mainVars, listVars, pkgFiles, err, lic, reg, crashed, firstFailed>>

\* Mutant of GoModCheck: the ProcessGoModules option is not looked at.
GoModCheckExistsOnly ==
  /\ ~crashed
  /\ mpc = "gomod"
  /\ \E exists, process \in BOOLEAN :
       /\ goMod' = [exists |-> exists, process |-> process, failed |-> ""]
       /\ mpc' = IF exists THEN "resolve" ELSE "return"
  /\ UNCHANGED <<alloc, stage, config, fromPath, tagging, listVars, pkg, pkgFiles, pkgDeps, deps, err, lic, next,
                 workerVars, t, crashed, started>>

\* line 224: util.Exists(go.mod) && spdx.Options().ProcessGoModules
GoModCheck ==
  /\ ~crashed
  /\ mpc = "gomod"
  /\ \E exists, process \in BOOLEAN :
       /\ goMod' = [exists |-> exists, process |-> process, failed |-> ""]
       /\ mpc' = IF exists /\ process THEN "resolve" ELSE "return"
  /\ UNCHANGED <<alloc, stage, config, fromPath, tagging, listVars, pkg, pkgFiles, pkgDeps, deps, err, lic, next,
                 workerVars, t, crashed, started>>

\* lines 226-230: deps, err := spdx.impl.GetGoDependencies(...); this err
\* is a variable of the if block.
GetGoDependencies ==
  /\ ~crashed
  /\ mpc = "resolve"
  /\ \/ /\ \E n \in 0..MaxDeps : deps' = n
        /\ mpc' = "addDeps"
        /\ UNCHANGED <<pkg, err, goMod>>
     \/ /\ ReturnError(NewError(DirOp), "scanning go packages")
        /\ goMod' = [goMod EXCEPT !.failed = "GetGoDependencies"]
        /\ deps' = deps
  /\ UNCHANGED <<alloc, stage, config, fromPath, tagging, listVars, pkgFiles, pkgDeps, lic, next, workerVars, t,
                 crashed, started>>

\* Mutant of AddDependency: a dependency that cannot be attached is left
\* out and the loop goes on.
AddDependencySkipFailed ==
  /\ ~crashed
  /\ mpc = "addDeps"
  /\ deps > 0
  /\ \/ /\ pkgDeps' = pkgDeps + 1
        /\ deps' = deps - 1
        /\ UNCHANGED <<mpc, pkg, err, goMod>>
     \/ /\ deps' = deps - 1
        /\ goMod' = [goMod EXCEPT !.failed = "AddDependency"]
        /\ UNCHANGED <<mpc, pkg, err, pkgDeps>>
  /\ UNCHANGED <<alloc, stage, config, fromPath, tagging, listVars, pkgFiles, lic, next, workerVars, t, crashed,
                 started>>

\* lines 231-235: one pass of the loop over deps.
AddDependency ==
  /\ ~crashed
  /\ mpc = "addDeps"
  /\ deps > 0
  /\ \/ /\ pkgDeps' = pkgDeps + 1
        /\ deps' = deps - 1
        /\ UNCHANGED <<mpc, pkg, err, goMod>>
     \/ /\ ReturnError(NewError(DirOp), "adding go dependency")
        /\ goMod' = [goMod EXCEPT !.failed = "AddDependency"]
        /\ UNCHANGED <<pkgDeps, deps>>
  /\ UNCHANGED <<alloc, stage, config, fromPath, tagging, listVars, pkgFiles, lic, next, workerVars, t, crashed,
                 started>>

\* line 239: return pkg, nil
ReturnPackage ==
  /\ ~crashed
  /\ \/ mpc = "return"
     \/ mpc = "addDeps" /\ deps = 0
  /\ err' = NilErr
  /\ mpc' = "returned"
  /\ UNCHANGED <<alloc, stage, config, fromPath, tagging, listVars, pkg, pkgFiles, pkgDeps, deps, lic, next, workerVars, t,
                 goMod, crashed, started>>

Main ==
  \/ Abs
  \/ GetDirectoryTree
  \/ LicenseReader
  \/ GetDirectoryLicense
  \/ IgnorePatterns
  \/ Dispatch
  \/ Receive
  \/ ThrottlerError
  \/ GoModCheck
  \/ GetGoDependencies
  \/ AddDependency
  \/ ReturnPackage

\* Every interleaving of the statements of the goroutines.  A panic ends
\* the process: no action is enabled once crashed holds.
Next ==
  \/ Main
  \/ \E w \in Paths : WorkerStep(w)
  \/ \E w \in Paths : Done(w)

Spec == Init /\ [][Next]_vars

\* The schedules in which no goroutine is preempted inside
\* processDirectoryFile; the deferred call of Done is a step of its own.
NextScan ==
  \/ Main
  \/ \E w \in Paths : WorkerRun(w)
  \/ \E w \in Paths : Done(w)

SpecScan == InitScan /\ [][NextScan]_vars

SpecLong == InitLong /\ [][NextScan]_vars

\* A goroutine started by the go statement has not run yet: WorkerRun is
\* enabled for it.
CanScan == \E w \in Paths : ~crashed /\ wpc[w] = "start"

\* Weak fairness of the scans, with the enabling condition of WorkerRun
\* written out: every scan that was started is run and returns.
ScanFair ==
  []<>(~CanScan) \/ []<><<\E w \in Paths : WorkerRun(w)>>_vars

\* The schedules of SpecScan in which every goroutine that can run does
\* run: PackageFromDirectory itself, the scans, and the deferred calls of
\* Done.
SpecTerm ==
  /\ InitTerm /\ [][NextScan]_vars
  /\ WF_vars(Main)
  /\ WF_vars(\E w \in Paths : Done(w))
  /\ ScanFair

\* ------------------------------------------------ calls of buildIDString
\* PackageFromDirectory before its call, in an empty directory.
DirIdle == InitDir({<<>>}, 0) /\ dirLicense = Nil

\* One call of buildIDString on the k-th seed list; the token generator is
\* called when no seed is meaningful.
BuildID(k) ==
  /\ Len(alloc.calls) < MaxCalls
  /\ LET seeds == alloc.inputs[k]
         id == buildIDString(seeds, UUIDString(alloc.uuids))
         uuid == IF NumValidSeeds(seeds) = 0 THEN UUIDString(alloc.uuids)
                 ELSE <<>>
     IN alloc' = [alloc EXCEPT
                    !.calls = Append(@, [seeds |-> seeds, id |-> id,
                                         uuid |-> uuid]),
                    !.uuids = IF NumValidSeeds(seeds) = 0 THEN @ + 1 ELSE @]
  /\ UNCHANGED <<dirVars, stage, config, fromPath, tagging>>

\* Repeated calls of buildIDString on one seed list.
InitID ==
  /\ DirIdle
  /\ alloc \in {NewAlloc(<<seeds>>) : seeds \in SeedLists}
  /\ stage = StageIdle
  /\ config = ConfigIdle
  /\ fromPath = FromPathIdle
  /\ tagging = TaggingIdle

NextID == \E k \in DOMAIN alloc.inputs : BuildID(k)

SpecID == InitID /\ [][NextID]_vars

\* One call of buildIDString whose only seed is the identifier the i-th
\* call returned.
BuildIDOfID(i) ==
  /\ Len(alloc.calls) < MaxCalls
  /\ LET seeds == <<alloc.calls[i].id>>
         id == buildIDString(seeds, UUIDString(alloc.uuids))
         uuid == IF NumValidSeeds(seeds) = 0 THEN UUIDString(alloc.uuids)
                 ELSE <<>>
     IN alloc' = [alloc EXCEPT
                    !.calls = Append(@, [seeds |-> seeds, id |-> id,
                                         uuid |-> uuid]),
                    !.uuids = IF NumValidSeeds(seeds) = 0 THEN @ + 1 ELSE @]
  /\ UNCHANGED <<dirVars, stage, config, fromPath, tagging>>

\* Calls of buildIDString on a seed list and on identifiers it returned.
NextIDOfID ==
  \/ \E k \in DOMAIN alloc.inputs : BuildID(k)
  \/ \E i \in DOMAIN alloc.calls : BuildIDOfID(i)

SpecIDOfID == InitID /\ [][NextIDOfID]_vars

\* Calls of buildIDString on two seed lists.
InitIDPair ==
  /\ DirIdle
  /\ alloc \in {NewAlloc(<<a, b>>) : a, b \in SeedLists}
  /\ stage = StageIdle
  /\ config = ConfigIdle
  /\ fromPath = FromPathIdle
  /\ tagging = TaggingIdle

SpecIDPair == InitIDPair /\ [][NextID]_vars

\* ------------------------------------------- GenerateBillOfMaterials
\* Mutant of GenerateSourceTreeBOM: the error of the generation is not
\* looked at.
GenerateSourceTreeBOMErrorDropped ==
  /\ stage.pc = "generateSource"
  /\ \/ stage' = LoopFrom(
                   [stage EXCEPT
                      !.source = NewDocument(stage.docs + 1,
                                   SourceNamespace("REPLACE"), <<>>, 1),
                      !.docs = @ + 1,
                      !.generated = @ + 1], 1)
     \/ stage' = LoopFrom([stage EXCEPT !.generated = @ + 1], 1)
  /\ UNCHANGED <<dirVars, alloc, config, fromPath, tagging>>

\* stage.go lines 741-751: the source SBOM is generated before the loop over
\* the versions.
GenerateSourceTreeBOM ==
  /\ stage.pc = "generateSource"
  /\ \/ stage' = LoopFrom(
                   [stage EXCEPT
                      !.source = NewDocument(stage.docs + 1,
                                   SourceNamespace("REPLACE"), <<>>, 1),
                      !.docs = @ + 1,
                      !.generated = @ + 1], 1)
     \/ stage' = StageReturn([stage EXCEPT !.generated = @ + 1],
                             "generating the kubernetes source SBOM")
  /\ UNCHANGED <<dirVars, alloc, config, fromPath, tagging>>

\* Mutant of WriteSourceBOM: the error of the write is not looked at.
WriteSourceBOMErrorDropped ==
  /\ stage.pc = "writeSource"
  /\ LET doc == [stage.source EXCEPT !.Namespace = SourceNamespace(Version),
                                     !.Name = KubernetesRef(Version)]
     IN \E ok \in BOOLEAN :
          stage' = [stage EXCEPT
                      !.source = doc,
                      !.written = DocWrite(@, doc, SourceBOMPath(Version),
                                           ok, Version, stage.done),
                      !.pc = "listImages"]
  /\ UNCHANGED <<dirVars, alloc, config, fromPath, tagging>>

\* lines 725-734 and 757-759: the common source document gets the namespace
\* and the name of the version and is written to the version's file.
WriteSourceBOM ==
  /\ stage.pc = "writeSource"
  /\ LET doc == [stage.source EXCEPT !.Namespace = SourceNamespace(Version),
                                     !.Name = KubernetesRef(Version)]
     IN \E ok \in BOOLEAN :
          LET st == [stage EXCEPT
                       !.source = doc,
                       !.written = DocWrite(@, doc, SourceBOMPath(Version),
                                            ok, Version, stage.done)]
          IN stage' = IF ok
                      THEN [st EXCEPT !.pc = "listImages",
                                      !.done = @ \cup {"WriteSourceBOM"}]
                      ELSE StageReturn(st, "writing the source code SBOM")
  /\ UNCHANGED <<dirVars, alloc, config, fromPath, tagging>>

\* lines 656-659
ListImageArchives ==
  /\ stage.pc = "listImages"
  /\ \/ \E n \in 0..MaxArtifacts :
          stage' = [stage EXCEPT !.images = n, !.pc = "baseDoc",
                                 !.done = @ \cup {"ListImageArchives"}]
     \/ stage' = StageReturn(stage, "getting artifacts list")
  /\ UNCHANGED <<dirVars, alloc, config, fromPath, tagging>>

\* lines 663-675: a new document with one package for each image archive.
BuildBaseArtifactsSBOM ==
  /\ stage.pc = "baseDoc"
  /\ \/ stage' = [stage EXCEPT
                    !.doc = NewDocument(stage.docs + 1, ReleaseNamespace(Version),
                              <<"Kubernetes Release ", Version>>, stage.images),
                    !.docs = @ + 1,
                    !.pc = "binaries",
                    !.done = @ \cup {"BuildBaseArtifactsSBOM"}]
     \/ stage' = StageReturn(stage, "generating base artifacts sbom")
  /\ UNCHANGED <<dirVars, alloc, config, fromPath, tagging>>

\* lines 598-616 and 628-646: the document after the first k artifacts of
\* the list were added as files, each with the relationship to the source.
RECURSIVE AddArtifactFiles(_, _, _, _)
AddArtifactFiles(doc, kind, k, version) ==
  IF k = 0 THEN doc
  ELSE DocAddFile(AddArtifactFiles(doc, kind, k - 1, version), <<kind, k>>,
                  {SourceRelationship(version)})

\* lines 591-618 and 678-680: ListBinaries fails, or the k-th binary cannot
\* be read or added, or every binary is added.
AddBinariesToSBOM ==
  /\ stage.pc = "binaries"
  /\ \E n \in 0..MaxArtifacts :
       \/ stage' = [stage EXCEPT
                      !.doc = AddArtifactFiles(@, "bin", n, Version),
                      !.pc = "tarballs",
                      !.done = @ \cup {"AddBinariesToSBOM"}]
       \/ /\ n = 0
          /\ stage' = StageReturn(stage, "Getting binaries list")
       \/ \E k \in 1..n :
            \E msg \in {"reading binary sourcefile",
                        "adding file to artifacts sbom"} :
              stage' = StageReturn(
                         [stage EXCEPT
                            !.doc = AddArtifactFiles(@, "bin", k - 1, Version)],
                         msg)
  /\ UNCHANGED <<dirVars, alloc, config, fromPath, tagging>>

\* Mutant of AddTarfilesToSBOM: its error is dropped and the stage goes on
\* with the tarballs added so far.
AddTarfilesToSBOMErrorDropped ==
  /\ stage.pc = "tarballs"
  /\ \E n \in 0..MaxArtifacts :
       \/ stage' = [stage EXCEPT
                      !.doc = AddArtifactFiles(@, "tar", n, Version),
                      !.pc = "extRef",
                      !.done = @ \cup {"AddTarfilesToSBOM"}]
       \/ /\ n = 0
          /\ stage' = [stage EXCEPT !.pc = "extRef"]
       \/ \E k \in 1..n :
            stage' = [stage EXCEPT
                        !.doc = AddArtifactFiles(@, "tar", k - 1, Version),
                        !.pc = "extRef"]
  /\ UNCHANGED <<dirVars, alloc, config, fromPath, tagging>>

\* lines 621-648 and 681-683
AddTarfilesToSBOM ==
  /\ stage.pc = "tarballs"
  /\ \E n \in 0..MaxArtifacts :
       \/ stage' = [stage EXCEPT
                      !.doc = AddArtifactFiles(@, "tar", n, Version),
                      !.pc = "extRef",
                      !.done = @ \cup {"AddTarfilesToSBOM"}]
       \/ /\ n = 0
          /\ stage' = StageReturn(stage, "listing release tarballs")
       \/ \E k \in 1..n :
            \E msg \in {"reading tarball sourcefile",
                        "adding file to artifacts sbom"} :
              stage' = StageReturn(
                         [stage EXCEPT
                            !.doc = AddArtifactFiles(@, "tar", k - 1, Version)],
                         msg)
  /\ UNCHANGED <<dirVars, alloc, config, fromPath, tagging>>

\* The file at path was written by this call.
FileWritten(path) ==
  \E i \in DOMAIN stage.written :
     stage.written[i].path = path /\ stage.written[i].ok

\* The external reference of lines 686-689, once ReadSourceFile has read
\* the source SBOM of the version.
SourceExtRef(version) ==
  [ID |-> KubernetesRef(version), URI |-> SourceNamespace(version),
   file |-> SourceBOMPath(version)]

\* Mutant of ReadSourceBOM: the reference is read and never appended to
\* doc.ExternalDocRefs.
ReadSourceBOMNotAppended ==
  /\ stage.pc = "extRef"
  /\ \/ /\ FileWritten(SourceBOMPath(Version))
        /\ stage' = [stage EXCEPT !.pc = "stamp",
                                  !.done = @ \cup {"ReadSourceBOM"}]
     \/ stage' = StageReturn(stage,
                   "reading the source file as external reference")
  /\ UNCHANGED <<dirVars, alloc, config, fromPath, tagging>>

\* lines 685-695: extRef.ReadSourceFile reads the source SBOM written for
\* the version, then the reference is appended to doc.ExternalDocRefs.
ReadSourceBOM ==
  /\ stage.pc = "extRef"
  /\ \/ /\ FileWritten(SourceBOMPath(Version))
        /\ stage' = [stage EXCEPT
                       !.doc.ExternalDocRefs = Append(@, SourceExtRef(Version)),
                       !.pc = "stamp",
                       !.done = @ \cup {"ReadSourceBOM"}]
     \/ stage' = StageReturn(stage,
                   "reading the source file as external reference")
  /\ UNCHANGED <<dirVars, alloc, config, fromPath, tagging>>

\* Mutant of StampPackages: the document goes to Write as the builder
\* returned it.
StampPackagesSkipped ==
  /\ stage.pc = "stamp"
  /\ stage' = [stage EXCEPT !.pc = "write"]
  /\ UNCHANGED <<dirVars, alloc, config, fromPath, tagging>>

\* lines 697-706
StampPackages ==
  /\ stage.pc = "stamp"
  /\ stage' = [stage EXCEPT
                 !.doc = DocStampPackages(@, SourceRelationship(Version)),
                 !.pc = "write"]
  /\ UNCHANGED <<dirVars, alloc, config, fromPath, tagging>>

\* Mutant of WriteArtifactsSBOM: the name of the file written does not
\* hold the version.
WriteArtifactsSBOMUnversioned ==
  /\ stage.pc = "write"
  /\ \E ok \in BOOLEAN :
       LET st == [stage EXCEPT
                    !.written = DocWrite(@, stage.doc, <<"release-bom.spdx">>,
                                         ok, Version, stage.done)]
       IN stage' = IF ok THEN LoopFrom(st, stage.vi + 1)
                   ELSE StageReturn(st, "writing artifacts SBOM")
  /\ UNCHANGED <<dirVars, alloc, config, fromPath, tagging>>

\* lines 708-712, then the next pass of the loop of line 755.
WriteArtifactsSBOM ==
  /\ stage.pc = "write"
  /\ \E ok \in BOOLEAN :
       LET st == [stage EXCEPT
                    !.written = DocWrite(@, stage.doc, ReleaseBOMPath(Version),
                                         ok, Version, stage.done)]
       IN stage' = IF ok THEN LoopFrom(st, stage.vi + 1)
                   ELSE StageReturn(st, "writing artifacts SBOM")
  /\ UNCHANGED <<dirVars, alloc, config, fromPath, tagging>>

\* One call of GenerateBillOfMaterials for up to MaxVersions versions.
InitStage ==
  /\ DirIdle
  /\ alloc = AllocIdle
  /\ stage \in {NewStage("generateSource", Versions(n)) : n \in 0..MaxVersions}
  /\ config = ConfigIdle
  /\ fromPath = FromPathIdle
  /\ tagging = TaggingIdle

NextStage ==
  \/ GenerateSourceTreeBOM
  \/ WriteSourceBOM
  \/ ListImageArchives
  \/ BuildBaseArtifactsSBOM
  \/ AddBinariesToSBOM
  \/ AddTarfilesToSBOM
  \/ ReadSourceBOM
  \/ StampPackages
  \/ WriteArtifactsSBOM

SpecStage == InitStage /\ [][NextStage]_vars

\* --------------------------------------------------- NewSPDX and Options
\* NewSPDX, lines 57-62: options is &defaultSPDXOptions.
NewSPDX ==
  /\ Len(config.instances) < MaxInstances
  /\ config' = [config EXCEPT
                  !.instances = Append(@,
                     [options |-> "defaultSPDXOptions",
                      own |-> config.heap["defaultSPDXOptions"]])]
  /\ UNCHANGED <<dirVars, alloc, stage, fromPath, tagging>>

\* spdx.Options().<name> = value by a holder of the i-th object: a write
\* through the pointer Options() returns.
SetOption(i, name, value) ==
  /\ i \in DOMAIN config.instances
  /\ config' = [config EXCEPT
                  !.heap[Options(i)][name] = value,
                  !.instances[i].own[name] = value]
  /\ UNCHANGED <<dirVars, alloc, stage, fromPath, tagging>>

InitConfig ==
  /\ DirIdle
  /\ alloc = AllocIdle
  /\ stage = StageIdle
  /\ config = ConfigIdle
  /\ fromPath = FromPathIdle
  /\ tagging = TaggingIdle

NextConfig ==
  \/ NewSPDX
  \/ \E i \in 1..MaxInstances, name \in OptionNames, value \in BOOLEAN :
       SetOption(i, name, value)

SpecConfig == InitConfig /\ [][NextConfig]_vars

\* ----------------------------------------------------------- FileFromPath
\* util.Exists(filePath)
Exists(path) == path \in Paths

\* return f, err of FileFromPath
FromPathReturn(fp, file, e) ==
  [fp EXCEPT !.pc = "idle", !.path = 0, !.f = NilFile, !.reads = 0,
             !.calls = Append(@, [path |-> fp.path, file |-> file, err |-> e,
                                  reads |-> fp.reads])]

\* A call of FileFromPath(path), line 248.
FileFromPath(path) ==
  /\ fromPath.pc = "idle"
  /\ Len(fromPath.calls) < MaxPathCalls
  /\ fromPath' = [fromPath EXCEPT !.pc = "exists", !.path = path]
  /\ UNCHANGED <<dirVars, alloc, stage, config, tagging>>

\* Mutant of FileFromPathExists: the path is read without the test.
FileFromPathNoTest ==
  /\ fromPath.pc = "exists"
  /\ fromPath' = [fromPath EXCEPT !.pc = "read"]
  /\ UNCHANGED <<dirVars, alloc, stage, config, tagging>>

\* lines 249-251
FileFromPathExists ==
  /\ fromPath.pc = "exists"
  /\ fromPath' = IF ~Exists(fromPath.path)
                 THEN FromPathReturn(fromPath, NilFile,
                                     NewError(fromPath.path))
                 ELSE [fromPath EXCEPT !.pc = "read"]
  /\ UNCHANGED <<dirVars, alloc, stage, config, tagging>>

\* lines 252-256: ReadSourceFile fails on a path that does not exist as on
\* one that cannot be read.
FileFromPathRead ==
  /\ fromPath.pc = "read"
  /\ LET e == IF Exists(fromPath.path) THEN ReadSourceFileErr(fromPath.path)
              ELSE NewError(fromPath.path)
         fp == [fromPath EXCEPT !.reads = @ + 1]
     IN fromPath' =
          IF e # NilErr
          THEN FromPathReturn(fp, NilFile, Wrap(e, "creating file from path"))
          ELSE FromPathReturn(fp, [NewFile EXCEPT !.FileName = fromPath.path,
                                                  !.checksum = TRUE], NilErr)
  /\ UNCHANGED <<dirVars, alloc, stage, config, tagging>>

\* Calls of FileFromPath on the paths of a directory and on a path that
\* does not exist.
InitFromPath ==
  /\ InitDir(Disks(MaxFiles), 0)
  /\ dirLicense = Nil
  /\ alloc = AllocIdle
  /\ stage = StageIdle
  /\ config = ConfigIdle
  /\ fromPath = FromPathIdle
  /\ tagging = TaggingIdle

NextFromPath ==
  \/ \E path \in 1..(Len(disk) + 1) : FileFromPath(path)
  \/ FileFromPathExists
  \/ FileFromPathRead

SpecFromPath == InitFromPath /\ [][NextFromPath]_vars

\* ---------------------------------------------------------- TagRepository
\* The version the loop of line 409 is at.
TagVersion == tagging.versions[tagging.vi]

\* branch != "" && !strings.HasPrefix(branch, "release-")
OnOtherBranch(branch) ==
  branch # NoBranch /\ ~HasPrefix(branch, ReleasePrefix)

\* stage.go lines 404-407
OpenRepo ==
  /\ tagging.pc = "open"
  /\ \/ tagging' = TagLoopFrom(tagging, 1)
     \/ tagging' = TagReturn(tagging, "open Kubernetes repository")
  /\ UNCHANGED <<dirVars, alloc, stage, config, fromPath>>

\* Mutant of RevParseTag: the result of the lookup is not looked at.
RevParseTagIgnored ==
  /\ tagging.pc = "revParse"
  /\ LET found == tagging.repo.tags[TagVersion] # 0
     IN tagging' = [TagOp(tagging, "RevParseTag", TagVersion, found,
                            tagging.repo)
                        EXCEPT !.pc = "checkout", !.commit = BuildCommit]
  /\ UNCHANGED <<dirVars, alloc, stage, config, fromPath>>

\* lines 412-423: RevParseTag returns nil for a tag that exists and an
\* error for one that does not.  Then the commit is chosen.
RevParseTag ==
  /\ tagging.pc = "revParse"
  /\ LET found == tagging.repo.tags[TagVersion] # 0
         tg == TagOp(tagging, "RevParseTag", TagVersion, found,
                     tagging.repo)
     IN tagging' = IF found THEN TagReturn(tg, "tag already exists")
                        ELSE [tg EXCEPT !.pc = "checkout",
                                        !.commit = BuildCommit]
  /\ UNCHANGED <<dirVars, alloc, stage, config, fromPath>>

\* lines 425-453: the new release branch for the prime version, the
\* default branch for the others, or the existing release branch.
CheckoutBranch ==
  /\ tagging.pc = "checkout"
  /\ LET new == tagging.createReleaseBranch /\ TagVersion = tagging.prime
         name == IF tagging.createReleaseBranch /\ ~new THEN DefaultBranch
                 ELSE tagging.ReleaseBranch
         possible == IF new THEN tagging.repo.branches[name] = 0
                     ELSE tagging.repo.branches[name] # 0
         repo == IF new
                 THEN GitCheckoutNewBranch(tagging.repo, name, tagging.commit)
                 ELSE GitCheckoutBranch(tagging.repo, name)
     IN \/ /\ possible
           /\ tagging' = [TagOp(tagging, "Checkout", name, TRUE, repo)
                            EXCEPT !.pc = "currentBranch"]
        \/ tagging' = TagReturn(
                        TagOp(tagging, "Checkout", name, FALSE, tagging.repo),
                        "checkout branch")
  /\ UNCHANGED <<dirVars, alloc, stage, config, fromPath>>

\* lines 455-463
CurrentBranch ==
  /\ tagging.pc = "currentBranch"
  /\ \/ tagging' = [tagging EXCEPT !.branch = tagging.repo.head.branch,
                                   !.pc = "commitEmpty"]
     \/ tagging' = TagReturn(tagging, "get current branch")
  /\ UNCHANGED <<dirVars, alloc, stage, config, fromPath>>

\* Mutant of CommitEmpty: the empty commit is made on every named branch.
CommitEmptyOnNamedBranch ==
  /\ tagging.pc = "commitEmpty"
  /\ IF tagging.branch # NoBranch
     THEN \/ tagging' = [TagOp(tagging, "CommitEmpty", TagVersion, TRUE,
                               GitNewCommit(tagging.repo))
                           EXCEPT !.pc = "detach"]
          \/ tagging' = TagReturn(
                          TagOp(tagging, "CommitEmpty", TagVersion, FALSE,
                                tagging.repo),
                          "create empty release commit")
     ELSE tagging' = [tagging EXCEPT !.pc = "detach"]
  /\ UNCHANGED <<dirVars, alloc, stage, config, fromPath>>

\* lines 491-500
CommitEmpty ==
  /\ tagging.pc = "commitEmpty"
  /\ IF HasPrefix(tagging.branch, ReleasePrefix)
     THEN \/ tagging' = [TagOp(tagging, "CommitEmpty", TagVersion, TRUE,
                               GitNewCommit(tagging.repo))
                           EXCEPT !.pc = "detach"]
          \/ tagging' = TagReturn(
                          TagOp(tagging, "CommitEmpty", TagVersion, FALSE,
                                tagging.repo),
                          "create empty release commit")
     ELSE tagging' = [tagging EXCEPT !.pc = "detach"]
  /\ UNCHANGED <<dirVars, alloc, stage, config, fromPath>>

\* lines 502-510
DetachHead ==
  /\ tagging.pc = "detach"
  /\ IF OnOtherBranch(tagging.branch)
     THEN \/ tagging' = [TagOp(tagging, "CheckoutCommit", tagging.commit, TRUE,
                               GitCheckoutCommit(tagging.repo, tagging.commit))
                           EXCEPT !.pc = "merge"]
          \/ tagging' = TagReturn(
                          TagOp(tagging, "CheckoutCommit", tagging.commit,
                                FALSE, tagging.repo),
                          "checkout release commit")
     ELSE tagging' = [tagging EXCEPT !.pc = "merge"]
  /\ UNCHANGED <<dirVars, alloc, stage, config, fromPath>>

\* lines 512-520: with a custom ref, git merge makes a commit on top of
\* HEAD or finds nothing to merge, or fails.
Merge ==
  /\ tagging.pc = "merge"
  /\ IF tagging.customRef
     THEN \/ \E moved \in BOOLEAN :
               tagging' = [TagOp(tagging, "Merge", TagVersion, TRUE,
                                 IF moved THEN GitNewCommit(tagging.repo)
                                 ELSE tagging.repo)
                             EXCEPT !.pc = "tag"]
          \/ tagging' = TagReturn(
                          TagOp(tagging, "Merge", TagVersion, FALSE,
                                tagging.repo),
                          "merge k8s ref")
     ELSE tagging' = [tagging EXCEPT !.pc = "tag"]
  /\ UNCHANGED <<dirVars, alloc, stage, config, fromPath>>

\* Mutant of Tag: the error of the call is logged and the loop goes on.
TagErrorDropped ==
  /\ tagging.pc = "tag"
  /\ \/ /\ tagging.repo.tags[TagVersion] = 0
        /\ tagging' = [TagOp(tagging, "Tag", TagVersion, TRUE,
                             GitTag(tagging.repo, TagVersion))
                         EXCEPT !.pc = "reattach"]
     \/ tagging' = [TagOp(tagging, "Tag", TagVersion, FALSE, tagging.repo)
                      EXCEPT !.pc = "reattach"]
  /\ UNCHANGED <<dirVars, alloc, stage, config, fromPath>>

\* lines 522-532: git refuses a tag that exists.
Tag ==
  /\ tagging.pc = "tag"
  /\ \/ /\ tagging.repo.tags[TagVersion] = 0
        /\ tagging' = [TagOp(tagging, "Tag", TagVersion, TRUE,
                             GitTag(tagging.repo, TagVersion))
                         EXCEPT !.pc = "reattach"]
     \/ tagging' = TagReturn(
                     TagOp(tagging, "Tag", TagVersion, FALSE, tagging.repo),
                     "tag version")
  /\ UNCHANGED <<dirVars, alloc, stage, config, fromPath>>

\* lines 534-543, then the next pass of the loop of line 409.
Reattach ==
  /\ tagging.pc = "reattach"
  /\ IF OnOtherBranch(tagging.branch)
     THEN LET name == tagging.ReleaseBranch
          IN \/ /\ tagging.repo.branches[name] # 0
                /\ tagging' = TagLoopFrom(
                                TagOp(tagging, "Reattach", name, TRUE,
                                      GitCheckoutBranch(tagging.repo, name)),
                                tagging.vi + 1)
             \/ tagging' = TagReturn(
                             TagOp(tagging, "Reattach", name, FALSE,
                                   tagging.repo),
                             "checking out branch")
     ELSE tagging' = TagLoopFrom(tagging, tagging.vi + 1)
  /\ UNCHANGED <<dirVars, alloc, stage, config, fromPath>>

\* The calls of TagRepository: the versions, the prime version among them,
\* a release branch to create or an existing branch to tag, a custom ref
\* or none, tags that exist, a default branch at or past the build commit.
TaggingInputs ==
  {NewTagging("open", Versions(n), prime, create, name, customRef,
              NewRepo(Versions(n), tip, create, existing)) :
     n \in 1..MaxVersions, prime \in 1..MaxVersions, create \in BOOLEAN,
     name \in BranchNames, customRef \in BOOLEAN,
     tip \in {BuildCommit, BuildCommit + 1},
     existing \in SUBSET (1..MaxVersions)}

InitTagging ==
  /\ DirIdle
  /\ alloc = AllocIdle
  /\ stage = StageIdle
  /\ config = ConfigIdle
  /\ fromPath = FromPathIdle
  /\ tagging \in {tg \in TaggingInputs :
                   /\ tg.prime \in DOMAIN tg.versions
                   /\ tg.createReleaseBranch
                        => tg.ReleaseBranch = ReleaseBranchName}

NextTagging ==
  \/ OpenRepo
  \/ RevParseTag
  \/ CheckoutBranch
  \/ CurrentBranch
  \/ CommitEmpty
  \/ DetachHead
  \/ Merge
  \/ Tag
  \/ Reattach

SpecTagging == InitTagging /\ [][NextTagging]_vars

\* ------------------------------------------------------------------ claims
FailingKinds == {"unclassifiable", "unreadable", "rejected"}

Listed == {fileList[i] : i \in 1..Len(fileList)}

RunningScans == {w \in Paths : Running(w)}

\* PackageFromDirectory is past the dispatch loop and the throttler.
AfterScan ==
  mpc \in {"terr", "gomod", "resolve", "addDeps", "return", "returned"}

\* C1: when the scan of a file has failed, the call returns a non-nil error.
C1_FailedScanReturnsError ==
  (mpc = "returned" /\ firstFailed # 0) => err # NilErr

\* C2: at every moment at most 5 scans have started and not called Done.
C2_AtMostFiveScans ==
  Cardinality(RunningScans) <= 5

C2_Witness ==
  /\ Cardinality(RunningScans) = 5
  /\ mpc = "waitSlot"
  /\ next <= Len(fileList)

\* C3: no path is scanned twice, and once the dispatch loop is over exactly
\* one scan was started for every entry of the filtered file list and none
\* for any other path.
C3_OneScanPerEntry ==
  /\ \A w \in Paths : started[w] <= 1
  /\ AfterScan =>
       \A w \in Paths : started[w] = IF w \in Listed THEN 1 ELSE 0

C3_Witness ==
  /\ mpc = "returned"
  /\ \E i, j \in 1..Len(fileList) :
       /\ i < j
       /\ disk[fileList[i]] \in FailingKinds
       /\ firstFailed = fileList[i]
       /\ started[fileList[j]] = 1

\* C4: the call reads the throttler's error and returns only when every scan
\* that was dispatched has called Done.
C4_ReturnAfterAllScans ==
  AfterScan => RunningScans = {}

C4_Witness ==
  /\ mpc = "returned"
  /\ err # NilErr
  /\ err.cause # DirOp
  /\ Len(fileList) > 5
  /\ \A w \in Listed : wpc[w] = "finished"

\* C5: a package returned without error holds exactly one File for every
\* entry of the filtered list: as many as listed entries minus ignored ones.
C5_PackageHoldsEveryListedFile ==
  (mpc = "returned" /\ err = NilErr) =>
     /\ {g.Name : g \in pkgFiles} = Listed
     /\ Cardinality(pkgFiles) = Len(tree) - Cardinality(patterns)

\* C6: a call that returns a non-nil error returns a nil package.
C6_ErrorMeansNoPackage ==
  (mpc = "returned" /\ err # NilErr) => pkg = Nil

C6_Witness ==
  /\ mpc = "returned"
  /\ err # NilErr
  /\ pkg = Nil
  /\ pkgFiles # {}

\* The shared variables a goroutine has written, and those it has read or
\* written, outside any lock: err is read by the defer statement, lic and err
\* are written by line 191.
UnlockedWrites(w) ==
  IF wpc[w] \in {"idle", "start", "classify", "finished"} THEN {}
  ELSE {"lic", "err"}

UnlockedAccesses(w) ==
  IF wpc[w] \in {"idle", "start", "finished"} THEN {}
  ELSE IF wpc[w] = "classify" THEN {"err"}
  ELSE {"lic", "err"}

\* C7: no variable is written by one worker and read or written by another
\* worker that runs at the same time, except under mutual exclusion.
C7_SharedStateUnderMutex ==
  \A v, w \in Paths :
     (v # w /\ Running(v) /\ Running(w)) =>
        UnlockedWrites(v) \cap UnlockedAccesses(w) = {}

\* C8: every File of the package carries the classification of its own
\* path: without a license NONE and the directory's license as concluded
\* license, with a license the ID of that license.
C8_OwnClassification ==
  \A g \in pkgFiles :
     IF LicenseFromFile(g.Name).license = Nil
     THEN g.LicenseInfoInFile = NONE /\ g.LicenseConcluded = licenseTag
     ELSE g.LicenseInfoInFile = LicenseFromFile(g.Name).license

\* C9: when several scans have failed, the error the call returns for them
\* is the error of the scan that failed first.
C9_FirstErrorReturned ==
  (/\ mpc = "returned"
   /\ err # NilErr
   /\ err.cause # DirOp
   /\ Cardinality({w \in Paths : wpc[w] = "finished"
                                 /\ disk[w] \in FailingKinds}) >= 2)
  => err.cause = firstFailed

\* C10: AddFile is never invoked for a file whose license classification or
\* checksum read fails: no such file is in the package.
C10_FailedFileNotAdded ==
  \A g \in pkgFiles : disk[g.Name] \notin {"unclassifiable", "unreadable"}

\* C16: when GetGoDependencies or one AddDependency has failed, the call
\* returns an error and no package, and a package that is returned has every
\* resolved dependency attached.
C16_DependenciesAllOrNothing ==
  mpc = "returned" =>
     /\ goMod.failed # "" => (pkg = Nil /\ err # NilErr)
     /\ pkg # Nil => deps = 0

\* Every scan succeeded, one dependency was attached and the next was not.
C16_Witness ==
  /\ mpc = "returned"
  /\ goMod.failed = "AddDependency"
  /\ firstFailed = 0
  /\ pkgFiles # {}
  /\ pkgDeps > 0
  /\ pkg = Nil

\* C17: the dependency resolver is called only when go.mod exists and
\* ProcessGoModules is set; otherwise no dependency is attached to the
\* package.
C17_ResolverOnlyForEnabledGoModule ==
  /\ (mpc \in {"resolve", "addDeps"} \/ goMod.failed # "" \/ pkgDeps > 0)
       => (goMod.exists /\ goMod.process)
  /\ (mpc = "returned" /\ pkg # Nil /\ ~(goMod.exists /\ goMod.process))
       => (pkgDeps = 0 /\ deps = 0)

\* A package returned for a go module with ProcessGoModules unset.
C17_Witness ==
  /\ mpc = "returned"
  /\ pkg # Nil
  /\ err = NilErr
  /\ goMod.exists
  /\ ~goMod.process
  /\ pkgFiles # {}
  /\ pkgDeps = 0

\* C24: no goroutine reads LicenseID through a nil lic: the process never
\* panics in processDirectoryFile.
C24_NoNilLicenseDereference ==
  /\ ~crashed
  /\ \A w \in Paths : wpc[w] # "panic"

\* The errors handed to Throttler.Done when the goroutines of the given
\* paths run one after the other, each from its first statement to its
\* return before the next is started; e and l are err and lic before.
RECURSIVE SequentialErrs(_, _, _)
SequentialErrs(list, e, l) ==
  IF list = <<>> THEN <<>>
  ELSE LET w == Head(list)
           s == Run(w, [pc |-> "start", doneArg |-> NilErr, reg |-> NilErr,
                        f |-> NewFile, err |-> e, lic |-> l, files |-> {},
                        crashed |-> FALSE, firstFailed |-> 0])
       IN (IF s.doneArg # NilErr THEN <<s.doneArg>> ELSE <<>>)
            \o SequentialErrs(Tail(list), s.err, s.lic)

\* C25: whether the scan of the file list ends with an error or goes on to
\* return the package is the same under every schedule of the goroutines:
\* it is what the schedule that runs them one after the other gives.
C25_OutcomeIndependentOfSchedule ==
  /\ mpc \in {"gomod", "resolve", "addDeps", "return"} =>
        SequentialErrs(fileList, NilErr, dirLicense) = <<>>
  /\ (mpc = "returned" /\ err # NilErr /\ err.cause # DirOp) =>
        SequentialErrs(fileList, NilErr, dirLicense) # <<>>

\* ---------------------------------------------------- claims: buildIDString
IDCalls == {alloc.calls[i] : i \in DOMAIN alloc.calls}

\* A seed as the specification sanitizes it, character by character: '/'
\* and ':' become '-', a letter, a digit, '-' and '.' stay, the rest goes.
RECURSIVE Sanitized(_)
Sanitized(s) ==
  IF s = <<>> THEN <<>>
  ELSE (IF Head(s) \in {"/", ":"} THEN <<"-">>
        ELSE IF Head(s) \in Letters \cup Digits \cup {"-", "."} THEN <<Head(s)>>
        ELSE <<>>) \o Sanitized(Tail(s))

\* The seeds of a list that are not empty once sanitized, in input order.
RECURSIVE Surviving(_)
Surviving(seeds) ==
  IF seeds = <<>> THEN <<>>
  ELSE (IF Sanitized(Head(seeds)) = <<>> THEN <<>>
        ELSE <<Sanitized(Head(seeds))>>) \o Surviving(Tail(seeds))

Meaningful(s) == s # <<>> /\ ~HasPrefix(s, SPDXRefPrefix)

\* The meaningful seed count of a list.
MeaningfulCount(seeds) ==
  Cardinality({i \in DOMAIN Surviving(seeds) : Meaningful(Surviving(seeds)[i])})

\* Strings joined by '-'.
RECURSIVE Joined(_)
Joined(list) ==
  IF list = <<>> THEN <<>>
  ELSE IF Len(list) = 1 THEN list[1]
  ELSE list[1] \o <<"-">> \o Joined(Tail(list))

\* C11: every identifier buildIDString returns is non-empty and made of
\* letters, digits, '-' and '.' only, whatever the seeds.
C11_IDNonEmptyAndLegal ==
  \A c \in IDCalls :
     /\ c.id # <<>>
     /\ \A i \in DOMAIN c.id : c.id[i] \in Letters \cup Digits \cup {"-", "."}

\* A call on an empty string and a string of illegal characters only.
C11_Witness ==
  \E c \in IDCalls :
     /\ Len(c.seeds) = 2
     /\ c.seeds[1] = <<>>
     /\ c.seeds[2] # <<>>
     /\ \A i \in DOMAIN c.seeds[2] : c.seeds[2][i] = "!"
     /\ c.id # <<>>

\* C12: with at least one meaningful seed, the identifier is the sanitized
\* non-empty seeds (those with the prefix included) joined by '-' in input
\* order, and repeated calls on the list return the same string.
C12_JoinedSanitizedSeeds ==
  \A c \in IDCalls :
     MeaningfulCount(c.seeds) > 0 =>
        /\ c.id = Joined(Surviving(c.seeds))
        /\ \A d \in IDCalls : d.seeds = c.seeds => d.id = c.id

\* Two calls on a list of a seed with the prefix and a meaningful seed that
\* sanitization changes.
C12_Witness ==
  /\ Len(alloc.calls) = 2
  /\ \E c \in IDCalls :
       /\ Len(c.seeds) = 2
       /\ HasPrefix(Sanitized(c.seeds[1]), SPDXRefPrefix)
       /\ Meaningful(Sanitized(c.seeds[2]))
       /\ Sanitized(c.seeds[2]) # c.seeds[2]
       /\ c.id = Joined(Surviving(c.seeds))

\* C13: two different seed lists that each have a meaningful seed never
\* yield the same identifier.
C13_CollisionFree ==
  \A c, d \in IDCalls :
     (/\ c.seeds # d.seeds
      /\ MeaningfulCount(c.seeds) > 0
      /\ MeaningfulCount(d.seeds) > 0)
     => c.id # d.id

\* C14 as stated: without meaningful seed the identifier is the random
\* token alone.
C14_TokenAlone ==
  \A c \in IDCalls : MeaningfulCount(c.seeds) = 0 => c.id = c.uuid

\* C14 amended: without meaningful seed the identifier is the surviving
\* seeds (all of them carry the prefix) and then the fresh token, joined by
\* '-' in this order; it is the token alone when no seed survives.
C14_SeedsThenToken ==
  \A c \in IDCalls :
     MeaningfulCount(c.seeds) = 0 =>
        /\ c.uuid # <<>>
        /\ c.id = Joined(Append(Surviving(c.seeds), c.uuid))
        /\ Surviving(c.seeds) = <<>> => c.id = c.uuid

\* A call without meaningful seed on a list with a seed that survives.
C14_Witness ==
  \E c \in IDCalls :
     /\ MeaningfulCount(c.seeds) = 0
     /\ Surviving(c.seeds) # <<>>
     /\ c.id = Joined(Surviving(c.seeds)) \o <<"-">> \o c.uuid

\* C15: two separate calls on a seed list without meaningful seed return
\* different identifiers.
C15_FreshTokenPerCall ==
  \A i, j \in DOMAIN alloc.calls :
     (/\ i # j
      /\ alloc.calls[i].seeds = alloc.calls[j].seeds
      /\ MeaningfulCount(alloc.calls[i].seeds) = 0)
     => alloc.calls[i].id # alloc.calls[j].id

\* Two calls on one list without meaningful seed, one seed of which
\* survives.
C15_Witness ==
  /\ Len(alloc.calls) >= 2
  /\ alloc.calls[1].seeds = alloc.calls[2].seeds
  /\ MeaningfulCount(alloc.calls[1].seeds) = 0
  /\ Surviving(alloc.calls[1].seeds) # <<>>
  /\ alloc.calls[1].id # alloc.calls[2].id

\* ------------------------------------------- claims: GenerateBillOfMaterials
StageWrites == {stage.written[i] : i \in DOMAIN stage.written}

\* The calls of Write of GenerateVersionArtifactsBOM.
ArtifactWrites == {w \in StageWrites : w.path = ReleaseBOMPath(w.version)}

\* The relationships of the packages and of the files of a document.
Relationships(doc) ==
  UNION {doc.Packages[p] : p \in DOMAIN doc.Packages}
    \cup UNION {g.Relationships : g \in doc.Files}

DeclaredRefs(doc) ==
  {doc.ExternalDocRefs[i].ID : i \in DOMAIN doc.ExternalDocRefs}

\* C18: in every artifacts document handed to Write, each GENERATED_FROM
\* relationship of a package, binary or tarball names the reference
\* kubernetes-<version>, and the document declares that reference.
C18_RelationshipsNameDeclaredRef ==
  \A w \in ArtifactWrites :
     \A r \in Relationships(w.content) :
        r.Type = GENERATED_FROM =>
           /\ r.PeerExtReference = KubernetesRef(w.version)
           /\ r.PeerExtReference \in DeclaredRefs(w.content)

\* An artifacts document is written whose package, binary and tarball all
\* carry the relationship.
C18_Witness ==
  \E w \in ArtifactWrites :
     /\ \E p \in DOMAIN w.content.Packages : w.content.Packages[p] # {}
     /\ \E g \in w.content.Files : g.Name[1] = "bin" /\ g.Relationships # {}
     /\ \E g \in w.content.Files : g.Name[1] = "tar" /\ g.Relationships # {}

ArtifactSteps ==
  {"ListImageArchives", "BuildBaseArtifactsSBOM", "AddBinariesToSBOM",
   "AddTarfilesToSBOM", "ReadSourceBOM"}

ArtifactStepErrors ==
  {"getting artifacts list", "generating base artifacts sbom",
   "Getting binaries list", "reading binary sourcefile",
   "adding file to artifacts sbom", "listing release tarballs",
   "reading tarball sourcefile",
   "reading the source file as external reference"}

\* C19: an artifacts document is handed to Write only when the five steps
\* before it have succeeded for its version, and for a version one of whose
\* steps failed Write is never called.
C19_WriteOnlyAfterEveryStep ==
  /\ \A w \in ArtifactWrites : ArtifactSteps \subseteq w.done
  /\ (stage.pc = "returned" /\ stage.err \in ArtifactStepErrors) =>
        \A w \in ArtifactWrites : w.version # Version

\* The artifacts document of the first version is written, a tarball of the
\* second version cannot be read, and nothing is written for that version.
C19_Witness ==
  /\ stage.pc = "returned"
  /\ stage.err = "reading tarball sourcefile"
  /\ stage.vi = 2
  /\ \E w \in ArtifactWrites : w.version = stage.versions[1] /\ w.ok
  /\ \A w \in ArtifactWrites : w.version # Version

\* C20 as stated: no Document object is passed to Write more than once
\* during one call of GenerateBillOfMaterials.
C20_EachDocumentWrittenOnce ==
  \A i, j \in DOMAIN stage.written :
     i # j => stage.written[i].doc # stage.written[j].doc

\* C20 amended: no file is written twice and no artifacts document is
\* passed to Write twice; the one source document is passed to Write once
\* for each version, with the namespace and the name of that version.
C20_EachFileWrittenOnce ==
  \A i, j \in DOMAIN stage.written :
     i # j =>
        /\ stage.written[i].path # stage.written[j].path
        /\ stage.written[i].doc = stage.written[j].doc =>
             /\ stage.written[i].doc = stage.source.id
             /\ stage.written[i].version # stage.written[j].version
             /\ stage.written[i].content.Namespace
                  # stage.written[j].content.Namespace
             /\ stage.written[i].content.Name # stage.written[j].content.Name

\* The call has returned nil for two versions: the source document was
\* written twice, each artifacts document once.
C20_Witness ==
  /\ stage.pc = "returned"
  /\ stage.err = ""
  /\ Len(stage.versions) >= 2
  /\ Cardinality({i \in DOMAIN stage.written :
                    stage.written[i].doc = stage.source.id}) >= 2
  /\ \A w \in ArtifactWrites :
        Cardinality({i \in DOMAIN stage.written :
                       stage.written[i].doc = w.doc}) = 1

\* C21: when GenerateVersionArtifactsBOM calls Write, every package of the
\* document carries a GENERATED_FROM relationship to the source document of
\* the version the document is built for.
C21_PackagesStampedBeforeWrite ==
  \A w \in ArtifactWrites :
     \A p \in DOMAIN w.content.Packages :
        \E r \in w.content.Packages[p] :
           /\ r.Type = GENERATED_FROM
           /\ r.PeerExtReference = KubernetesRef(w.version)
           /\ r.PeerReference = "SPDXRef-Package-kubernetes"

\* The artifacts document of the second version, which has a package, is
\* handed to Write.
C21_Witness ==
  \E w \in ArtifactWrites :
     /\ Len(stage.versions) >= 2
     /\ w.version = stage.versions[2]
     /\ DOMAIN w.content.Packages # {}
     /\ \A p \in DOMAIN w.content.Packages :
           SourceRelationship(w.version) \in w.content.Packages[p]

\* ----------------------------------------------------------- claims: options
\* C22: the options an SPDX object observes are those it was built with as
\* changed through its own Options(): a write through the Options() of
\* another object does not change them.
C22_NoSharedDefaultOptions ==
  \A i \in DOMAIN config.instances :
     ObservedOptions(i) = config.instances[i].own

\* ------------------------------------------------------ claims: FileFromPath
FromPathCalls == {fromPath.calls[i] : i \in DOMAIN fromPath.calls}

\* C23: for a path that does not exist FileFromPath returns an error and
\* no File and has not tried to read; it returns a File only for a path that
\* exists and whose content was read.
C23_FileOnlyFromReadablePath ==
  \A c \in FromPathCalls :
     /\ c.path \notin Paths =>
           (c.file = NilFile /\ c.err # NilErr /\ c.reads = 0)
     /\ c.file # NilFile =>
           /\ c.path \in Paths
           /\ disk[c.path] # "unreadable"
           /\ c.reads = 1
           /\ c.file.checksum
           /\ c.err = NilErr
     /\ (c.file = NilFile) # (c.err = NilErr)

\* One call on a path that does not exist and one that returned a File.
C23_Witness ==
  /\ \E c \in FromPathCalls : c.path \notin Paths /\ c.file = NilFile
  /\ \E c \in FromPathCalls : c.file # NilFile /\ c.path \in Paths

\* ---------------------------------------------------- TagRepository claims
\* The calls of TagRepository on the repository, in the order made.
TagLog == tagging.log

\* The positions of the log with a call of op.
TagOps(op) == {i \in DOMAIN TagLog : TagLog[i].op = op}

\* The versions for which Tag returned nil.
Tagged == {TagLog[i].arg : i \in {j \in TagOps("Tag") : TagLog[j].ok}}

\* C26: TagRepository never creates a tag for a version whose tag already
\* exists: when RevParseTag succeeds for a version, the call returns an
\* error and no checkout, commit, merge or tag follows, for that version
\* or a later one.
C26_ExistingTagStopsTheCall ==
  /\ \A i \in TagOps("RevParseTag") :
       TagLog[i].ok
         => /\ i = Len(TagLog)
            /\ tagging.pc = "returned"
            /\ tagging.err = "tag already exists"
            /\ tagging.vi = TagLog[i].vi
  /\ \A j \in TagOps("Tag") :
       TagLog[j].ok
         => \E i \in TagOps("RevParseTag") :
              /\ i < j
              /\ TagLog[i].arg = TagLog[j].arg
              /\ ~TagLog[i].ok

\* The second version's tag exists, found after the first version was tagged.
C26_Witness ==
  /\ tagging.pc = "returned"
  /\ tagging.err = "tag already exists"
  /\ tagging.vi = 2
  /\ Tagged = {1}
  /\ TagLog[Len(TagLog)].op = "RevParseTag"

\* The empty release commits made for the version of the Tag call at j,
\* after the checkout of the branch and before the call.
EmptyCommitsBefore(j) ==
  {i \in TagOps("CommitEmpty") :
     /\ TagLog[i].ok
     /\ TagLog[i].vi = TagLog[j].vi
     /\ i < j
     /\ \E c \in TagOps("Checkout") : TagLog[c].vi = TagLog[j].vi /\ c < i}

\* C27: for every version tagged while the current branch starts with
\* release-, exactly one empty release commit is made after the checkout of
\* the branch and before Tag; on any other branch, or with HEAD detached,
\* no empty commit is made for the version.
C27_EmptyCommitOnlyOnReleaseBranch ==
  /\ \A j \in TagOps("Tag") :
       Cardinality(EmptyCommitsBefore(j))
         = IF HasPrefix(TagLog[j].branch, ReleasePrefix) THEN 1 ELSE 0
  /\ \A i \in TagOps("CommitEmpty") :
       /\ HasPrefix(TagLog[i].branch, ReleasePrefix)
       /\ \A k \in TagOps("CommitEmpty") : TagLog[k].vi = TagLog[i].vi => k = i

\* One version tagged on the release branch and one on the default branch.
C27_Witness ==
  /\ \E j \in TagOps("Tag") :
       /\ TagLog[j].ok
       /\ TagLog[j].branch = ReleaseBranchName
       /\ Cardinality(EmptyCommitsBefore(j)) = 1
  /\ \E j \in TagOps("Tag") :
       /\ TagLog[j].ok
       /\ TagLog[j].branch = DefaultBranch
       /\ EmptyCommitsBefore(j) = {}

\* C28: on a named branch that does not start with release-, the tag is
\* made on the build commit: HEAD is detached at that commit before Tag and
\* nothing between the detaching checkout and Tag moves HEAD or adds a
\* commit.
C28_TagOnBuildCommit ==
  \A j \in TagOps("Tag") :
    OnOtherBranch(TagLog[j].branch)
      => \E d \in TagOps("CheckoutCommit") :
           /\ d < j
           /\ TagLog[d].vi = TagLog[j].vi
           /\ TagLog[d].arg = BuildCommit
           /\ \A i \in d..j :
                TagLog[i].head = [branch |-> NoBranch, commit |-> BuildCommit]

\* C29: after a version is tagged on a named branch that is no release
\* branch, the branch checked out again is the one that was current before
\* HEAD was detached.
C29_ReattachToTheBranchLeft ==
  \A i \in TagOps("Reattach") : TagLog[i].arg = TagLog[i].branch

\* The calls of Tag, in the order made.
TagCalls == SelectSeq(TagLog, LAMBDA e : e.op = "Tag")

\* The versions before the one the loop is at.
VersionsBefore == {tagging.versions[i] : i \in 1..(tagging.vi - 1)}

\* The call returned the error of the checkout that reattaches HEAD.
FailedReattaching ==
  /\ tagging.pc = "returned"
  /\ tagging.err # ""
  /\ TagLog # <<>>
  /\ TagLog[Len(TagLog)].op = "Reattach"

\* C30 as stated: tags are made in the order of the versions, with one Tag
\* call per version; a failure at the k-th version leaves the tags of the
\* first k-1 versions in place and makes none for the k-th or a later
\* version; nil is returned only if every version was tagged.
C30_NoTagForTheFailedVersion ==
  /\ \A i \in DOMAIN TagCalls :
       /\ TagCalls[i].arg = tagging.versions[i]
       /\ TagCalls[i].vi = i
       /\ i < Len(TagCalls) => TagCalls[i].ok
  /\ \A v \in Tagged : tagging.repo.tags[v] # 0
  /\ tagging.pc = "returned" /\ tagging.err # "" => Tagged = VersionsBefore
  /\ tagging.pc = "returned" /\ tagging.err = ""
       => Tagged = {tagging.versions[i] : i \in DOMAIN tagging.versions}

\* C30, amended: tags are made in the order of the versions, with one Tag
\* call per version; a failure at the k-th version leaves the tags of the
\* first k-1 versions in place and makes none for a later version; the
\* k-th version has its tag exactly if the failure is that of the checkout
\* that reattaches HEAD after Tag; nil is returned only if every version
\* was tagged.
C30_TagsInOrderUpToTheFailure ==
  /\ \A i \in DOMAIN TagCalls :
       /\ TagCalls[i].arg = tagging.versions[i]
       /\ TagCalls[i].vi = i
       /\ i < Len(TagCalls) => TagCalls[i].ok
  /\ \A v \in Tagged : tagging.repo.tags[v] # 0
  /\ tagging.pc = "returned" /\ tagging.err # ""
       => Tagged = VersionsBefore
                     \cup IF FailedReattaching THEN {TagVersion} ELSE {}
  /\ tagging.pc = "returned" /\ tagging.err = ""
       => Tagged = {tagging.versions[i] : i \in DOMAIN tagging.versions}

\* Tag fails for the second version after the first was tagged.
C30_Witness ==
  /\ tagging.pc = "returned"
  /\ tagging.err = "tag version"
  /\ tagging.vi = 2
  /\ Tagged = {1}
  /\ tagging.repo.tags[1] # 0
  /\ tagging.repo.tags[2] = 0

\* The checkout that reattaches HEAD fails for the second version.
C30_WitnessReattach ==
  /\ FailedReattaching
  /\ tagging.vi = 2
  /\ Tagged = {1, 2}

\* ------------------------------------- claims: order of the stage's steps
\* GenerateVersionArtifactsBOM is running for the version of the loop.
InArtifactsBOM ==
  stage.pc \in {"listImages", "baseDoc", "binaries", "tarballs", "extRef",
                "stamp", "write"}

\* The positions of the history of writes with the source SBOM of version.
SourceWrites(version) ==
  {i \in DOMAIN stage.written :
     /\ stage.written[i].version = version
     /\ stage.written[i].path = SourceBOMPath(version)}

\* C31: for every version, WriteSourceBOM has succeeded before
\* GenerateVersionArtifactsBOM starts for it; no artifacts SBOM is made
\* for a version whose source SBOM write failed; after a failure for one
\* version no later version is processed.
C31_SourceBOMBeforeArtifactsBOM ==
  /\ InArtifactsBOM
       => /\ "WriteSourceBOM" \in stage.done
          /\ \E i \in SourceWrites(Version) : stage.written[i].ok
  /\ \A j \in DOMAIN stage.written :
       stage.written[j].path = ReleaseBOMPath(stage.written[j].version)
         => \E i \in SourceWrites(stage.written[j].version) :
              i < j /\ stage.written[i].ok
  /\ \A i \in DOMAIN stage.written :
       ~stage.written[i].ok
         => /\ i = Len(stage.written)
            /\ stage.pc = "returned"
            /\ stage.err # ""
            /\ stage.written[i].version = Version
  /\ stage.pc = "returned" /\ stage.err # ""
       => \A w \in StageWrites :
            \E k \in 1..stage.vi : w.version = stage.versions[k]

\* The source SBOM of the second version cannot be written after the first
\* version was done: nothing is made for the second version.
C31_Witness ==
  /\ stage.pc = "returned"
  /\ stage.err = "writing the source code SBOM"
  /\ stage.vi = 2
  /\ \E w \in ArtifactWrites : w.version = stage.versions[1] /\ w.ok
  /\ \A w \in ArtifactWrites : w.version # Version

\* C32: the source-tree SBOM is generated exactly once per call, however
\* many versions are staged, and before any document of a version is
\* written; if the generation fails, nothing is written for any version.
C32_SourceTreeBOMGeneratedOnce ==
  /\ stage.generated = IF stage.pc = "generateSource" THEN 0 ELSE 1
  /\ stage.written # <<>> => stage.source # NoDocument
  /\ stage.source = NoDocument /\ stage.pc # "generateSource"
       => /\ stage.pc = "returned"
          /\ stage.err = "generating the kubernetes source SBOM"
          /\ stage.written = <<>>

\* Two versions are done, with two documents written for each, after one
\* generation of the source-tree SBOM.
C32_Witness ==
  /\ stage.pc = "returned"
  /\ stage.err = ""
  /\ Len(stage.versions) = 2
  /\ Len(stage.written) = 4
  /\ stage.generated = 1

\* The generation fails with two versions staged: nothing is written.
C32_WitnessFailed ==
  /\ stage.pc = "returned"
  /\ stage.err = "generating the kubernetes source SBOM"
  /\ Len(stage.versions) = 2
  /\ stage.written = <<>>

\* ------------------------------------- claims: scans before dependencies
\* The dependency resolver of line 226 is being called or was called.
ResolverInvoked ==
  mpc \in {"resolve", "addDeps"} \/ goMod.failed # "" \/ pkgDeps > 0

\* C33: the dependencies are resolved only after every dispatched scan has
\* finished and only if the throttler reported no scan error; when it
\* reports one the resolver is never called.
C33_ResolverAfterCleanScan ==
  /\ ResolverInvoked
       => /\ RunningScans = {}
          /\ \A w \in Listed : started[w] = 1 /\ wpc[w] = "finished"
          /\ t.jobsStarted = Len(fileList)
          /\ ThrottlerErr(t) = NilErr
  /\ ThrottlerErr(t) # NilErr
       => /\ ~ResolverInvoked
          /\ deps = 0
          /\ mpc \notin {"gomod", "return"}

\* More scans than slots have all finished without a reported error and
\* the resolver has returned dependencies.
C33_Witness ==
  /\ mpc = "addDeps"
  /\ deps > 0
  /\ Len(fileList) > MaxWorkers
  /\ \A w \in Listed : wpc[w] = "finished"
  /\ ThrottlerErr(t) = NilErr

\* The throttler reported the error of a scan and the call has returned
\* it: the resolver was not called.
C33_WitnessError ==
  /\ mpc = "returned"
  /\ ThrottlerErr(t) # NilErr
  /\ err = ThrottlerErr(t)
  /\ Len(fileList) > MaxWorkers
  /\ ~ResolverInvoked

\* C34: if every scan of a file terminates, PackageFromDirectory
\* terminates for every length of the file list (none, fewer than 5,
\* exactly 5, more than 5): the dispatcher and the goroutines do not
\* deadlock on the throttler, whether the scans succeed or fail.
C34_PackageFromDirectoryTerminates ==
  <>(mpc = "returned")

\* The call has returned for a list of exactly as many files as the
\* throttler has slots, one of which failed; every Done was received.
C34_Witness ==
  /\ mpc = "returned"
  /\ Len(fileList) = MaxWorkers
  /\ firstFailed # 0
  /\ t.jobsCompleted = MaxWorkers
  /\ t.doneChan = 0
  /\ \A w \in Listed : wpc[w] = "finished"

\* ------------------------------------------- claims: buildIDString again
\* The pairs of a call and a later call whose only seed is the identifier
\* the first returned.
IDRecalls ==
  {p \in IDCalls \X IDCalls : p[2].seeds = <<p[1].id>>}

\* C35 as stated: for every seed list with a meaningful seed, the
\* identifier passed back as the only seed returns the same identifier.
C35_Idempotent ==
  \A p \in IDRecalls :
     MeaningfulCount(p[1].seeds) > 0 => p[2].id = p[1].id

\* C35 amended: for every seed list with a meaningful seed whose identifier
\* does not start with SPDXRef-, the identifier passed back as the only
\* seed returns the same identifier; an identifier that starts with
\* SPDXRef- returns itself followed by '-' and a fresh token.
C35_IdempotentUnlessPrefixed ==
  \A p \in IDRecalls :
     MeaningfulCount(p[1].seeds) > 0 =>
        IF HasPrefix(p[1].id, SPDXRefPrefix)
        THEN /\ p[2].uuid # <<>>
             /\ p[2].id = p[1].id \o <<"-">> \o p[2].uuid
        ELSE /\ p[2].uuid = <<>>
             /\ p[2].id = p[1].id

\* The identifier of two seeds, of which a character was replaced and one
\* removed, was passed back and returned as it is.
C35_Witness ==
  \E p \in IDRecalls :
     /\ Len(p[1].seeds) = 2
     /\ MeaningfulCount(p[1].seeds) = 2
     /\ \E i \in 1..2 : "/" \in {p[1].seeds[i][k] : k \in DOMAIN p[1].seeds[i]}
     /\ \E i \in 1..2 : "!" \in {p[1].seeds[i][k] : k \in DOMAIN p[1].seeds[i]}
     /\ ~HasPrefix(p[1].id, SPDXRefPrefix)
     /\ p[2].id = p[1].id

\* The identifier of a seed with the prefix and a meaningful seed was
\* passed back and returned with a token appended.
C35_WitnessPrefixed ==
  \E p \in IDRecalls :
     /\ MeaningfulCount(p[1].seeds) > 0
     /\ HasPrefix(p[1].id, SPDXRefPrefix)
     /\ p[2].id # p[1].id

====
